---- MODULE Spec2Model ----
(***************************************************************************)
(* huefy: the ANSI escape code builder (src/src/huefy/esc_builder.py) and  *)
(* the manifest verifier ThemeManager.validate_theme (src/hue.py).         *)
(*                                                                         *)
(* Text is modelled as a sequence of one-character strings, so that        *)
(* parsing and formatting are computed character by character as the code  *)
(* does.  The element "ESC" stands for the control character 0x1B.  Python's *)
(* None is the empty sequence where the code only tests truthiness.        *)
(***************************************************************************)
EXTENDS Integers, Sequences, FiniteSets, TLC

VARIABLES
    styles,      \* AnsiEscapeCodeBuilder._styles
    fg_color,    \* AnsiEscapeCodeBuilder._fg_color
    bg_color,    \* AnsiEscapeCodeBuilder._bg_color
    theme,       \* AnsiEscapeCodeBuilder._theme
    negative,    \* AnsiEscapeCodeBuilder._negative
    last,        \* the latest call on the builder: its arguments and outcome
    prevOut,     \* what the call before returned, when it and the latest are both build()
    calls,       \* the calls made since construction, while at most MaxHist
    styleCalls,  \* number of style-setter calls made since construction
    theme_arg,   \* validate_theme: the theme_file argument
    theme_file,  \* validate_theme: the local theme_file after line 40
    themeOnDisk, \* the file at theme_file: whether it exists, can be opened, its bytes
    manifest,    \* the file at manifest_path: whether it can be opened, its lines
    vpc,         \* validate_theme: where the call is
    lineNo,      \* validate_theme: index of the next manifest line the loop reads
    expected,    \* validate_theme: expected_hash of the line that named theme_file
    result,      \* validate_theme: what the call returned or raised
    printed,     \* validate_theme: the message the call printed
    opened,      \* validate_theme: whether open(manifest_path) was called
    importing,   \* hue.py: whether the module is imported (TRUE) or run as __main__
    args,        \* hue.py: the parsed command line (theme, validate, load)
    mpc,         \* hue.py: where the module-level block is
    loaded,      \* hue.py: what get_theme_instance returned or raised
    trace,       \* hue.py: the validate_theme and Theme.from_file calls made, in order
    exit,        \* hue.py: how the module-level block ended
    color_in,    \* _normalize_color: the color argument
    color_out    \* _normalize_color: what the call returned or raised

bvars == <<styles, fg_color, bg_color, theme, negative, last, prevOut, calls, styleCalls>>

vvars == <<theme_arg, theme_file, themeOnDisk, manifest, vpc, lineNo, expected, result,
           printed, opened>>

mvars == <<importing, args, mpc, loaded, trace, exit>>

nvars == <<color_in, color_out>>

vars == <<bvars, vvars, mvars, nvars>>

----------------------------------------------------------------------------
(* Bounds *)

MaxStyles == 2

MaxHist == 2

MaxLines == 3

\* most characters after the leading '#'s of a colour string given to _normalize_color
MaxBody == 6

\* most leading '#'s of a colour string given to _normalize_color
MaxHashes == 2

\* longest manifest, in lines, the runs of the module-level block are started with
MaxMainLines == 1

----------------------------------------------------------------------------
(* Text helpers *)

None == <<>>

Truthy(x) == x # <<>>

ESC == "ESC"

DigitChars == <<"0", "1", "2", "3", "4", "5", "6", "7", "8", "9">>

RECURSIVE NatToStr(_)
NatToStr(n) ==
    IF n < 10 THEN <<DigitChars[n + 1]>>
    ELSE NatToStr(n \div 10) \o <<DigitChars[(n % 10) + 1]>>

\* str(n) for an int, as the f-string formats it
IntToStr(n) == IF n < 0 THEN <<"-">> \o NatToStr(-n) ELSE NatToStr(n)

StartsWith(s, p) == Len(s) >= Len(p) /\ SubSeq(s, 1, Len(p)) = p

RECURSIVE LStrip(_, _)
LStrip(s, c) == IF s # <<>> /\ Head(s) = c THEN LStrip(Tail(s), c) ELSE s

RECURSIVE RStrip(_, _)
RStrip(s, c) ==
    IF s # <<>> /\ s[Len(s)] = c THEN RStrip(SubSeq(s, 1, Len(s) - 1), c) ELSE s

Strip(s, c) == RStrip(LStrip(s, c), c)

RECURSIVE Join(_, _)
Join(parts, sep) ==
    IF parts = <<>> THEN <<>>
    ELSE IF Len(parts) = 1 THEN parts[1]
    ELSE parts[1] \o sep \o Join(Tail(parts), sep)

RECURSIVE SplitOn(_, _)
\* s.split(c): the pieces of s between occurrences of the character c
SplitOn(s, c) ==
    IF \A i \in 1..Len(s) : s[i] # c THEN <<s>>
    ELSE LET k == CHOOSE i \in 1..Len(s) : s[i] = c /\ \A j \in 1..(i - 1) : s[j] # c
         IN <<SubSeq(s, 1, k - 1)>> \o SplitOn(SubSeq(s, k + 1, Len(s)), c)

\* the characters str.split() and str.strip() take for whitespace (str.isspace()).
\* A character no TLA+ string escape exists for is written by its name: "VT" is
\* 0x0B, "FS" "GS" "RS" "US" are 0x1C-0x1F, "NEL" is 0x85, "NBSP" is 0xA0, and
\* "U+XXXX" is the character of that code point.
Whitespace ==
    {" ", "\t", "\n", "\r", "\f", "VT", "FS", "GS", "RS", "US", "NEL", "NBSP",
     "U+1680", "U+2000", "U+2001", "U+2002", "U+2003", "U+2004", "U+2005", "U+2006",
     "U+2007", "U+2008", "U+2009", "U+200A", "U+2028", "U+2029", "U+202F", "U+205F",
     "U+3000"}

\* the whitespace int() and float() skip around a number: 0x1C-0x1F are not in it
NumericWhitespace == Whitespace \ {"FS", "GS", "RS", "US"}

\* the decimal digits outside ASCII that int() and float() read as 0..9 (Unicode 14
\* category Nd), by their code points: each row is the digits 0 to 9 of one script
UnicodeDigitRows ==
    { <<"U+0660", "U+0661", "U+0662", "U+0663", "U+0664",
        "U+0665", "U+0666", "U+0667", "U+0668", "U+0669">>,
      <<"U+06F0", "U+06F1", "U+06F2", "U+06F3", "U+06F4",
        "U+06F5", "U+06F6", "U+06F7", "U+06F8", "U+06F9">>,
      <<"U+07C0", "U+07C1", "U+07C2", "U+07C3", "U+07C4",
        "U+07C5", "U+07C6", "U+07C7", "U+07C8", "U+07C9">>,
      <<"U+0966", "U+0967", "U+0968", "U+0969", "U+096A",
        "U+096B", "U+096C", "U+096D", "U+096E", "U+096F">>,
      <<"U+09E6", "U+09E7", "U+09E8", "U+09E9", "U+09EA",
        "U+09EB", "U+09EC", "U+09ED", "U+09EE", "U+09EF">>,
      <<"U+0A66", "U+0A67", "U+0A68", "U+0A69", "U+0A6A",
        "U+0A6B", "U+0A6C", "U+0A6D", "U+0A6E", "U+0A6F">>,
      <<"U+0AE6", "U+0AE7", "U+0AE8", "U+0AE9", "U+0AEA",
        "U+0AEB", "U+0AEC", "U+0AED", "U+0AEE", "U+0AEF">>,
      <<"U+0B66", "U+0B67", "U+0B68", "U+0B69", "U+0B6A",
        "U+0B6B", "U+0B6C", "U+0B6D", "U+0B6E", "U+0B6F">>,
      <<"U+0BE6", "U+0BE7", "U+0BE8", "U+0BE9", "U+0BEA",
        "U+0BEB", "U+0BEC", "U+0BED", "U+0BEE", "U+0BEF">>,
      <<"U+0C66", "U+0C67", "U+0C68", "U+0C69", "U+0C6A",
        "U+0C6B", "U+0C6C", "U+0C6D", "U+0C6E", "U+0C6F">>,
      <<"U+0CE6", "U+0CE7", "U+0CE8", "U+0CE9", "U+0CEA",
        "U+0CEB", "U+0CEC", "U+0CED", "U+0CEE", "U+0CEF">>,
      <<"U+0D66", "U+0D67", "U+0D68", "U+0D69", "U+0D6A",
        "U+0D6B", "U+0D6C", "U+0D6D", "U+0D6E", "U+0D6F">>,
      <<"U+0DE6", "U+0DE7", "U+0DE8", "U+0DE9", "U+0DEA",
        "U+0DEB", "U+0DEC", "U+0DED", "U+0DEE", "U+0DEF">>,
      <<"U+0E50", "U+0E51", "U+0E52", "U+0E53", "U+0E54",
        "U+0E55", "U+0E56", "U+0E57", "U+0E58", "U+0E59">>,
      <<"U+0ED0", "U+0ED1", "U+0ED2", "U+0ED3", "U+0ED4",
        "U+0ED5", "U+0ED6", "U+0ED7", "U+0ED8", "U+0ED9">>,
      <<"U+0F20", "U+0F21", "U+0F22", "U+0F23", "U+0F24",
        "U+0F25", "U+0F26", "U+0F27", "U+0F28", "U+0F29">>,
      <<"U+1040", "U+1041", "U+1042", "U+1043", "U+1044",
        "U+1045", "U+1046", "U+1047", "U+1048", "U+1049">>,
      <<"U+1090", "U+1091", "U+1092", "U+1093", "U+1094",
        "U+1095", "U+1096", "U+1097", "U+1098", "U+1099">>,
      <<"U+17E0", "U+17E1", "U+17E2", "U+17E3", "U+17E4",
        "U+17E5", "U+17E6", "U+17E7", "U+17E8", "U+17E9">>,
      <<"U+1810", "U+1811", "U+1812", "U+1813", "U+1814",
        "U+1815", "U+1816", "U+1817", "U+1818", "U+1819">>,
      <<"U+1946", "U+1947", "U+1948", "U+1949", "U+194A",
        "U+194B", "U+194C", "U+194D", "U+194E", "U+194F">>,
      <<"U+19D0", "U+19D1", "U+19D2", "U+19D3", "U+19D4",
        "U+19D5", "U+19D6", "U+19D7", "U+19D8", "U+19D9">>,
      <<"U+1A80", "U+1A81", "U+1A82", "U+1A83", "U+1A84",
        "U+1A85", "U+1A86", "U+1A87", "U+1A88", "U+1A89">>,
      <<"U+1A90", "U+1A91", "U+1A92", "U+1A93", "U+1A94",
        "U+1A95", "U+1A96", "U+1A97", "U+1A98", "U+1A99">>,
      <<"U+1B50", "U+1B51", "U+1B52", "U+1B53", "U+1B54",
        "U+1B55", "U+1B56", "U+1B57", "U+1B58", "U+1B59">>,
      <<"U+1BB0", "U+1BB1", "U+1BB2", "U+1BB3", "U+1BB4",
        "U+1BB5", "U+1BB6", "U+1BB7", "U+1BB8", "U+1BB9">>,
      <<"U+1C40", "U+1C41", "U+1C42", "U+1C43", "U+1C44",
        "U+1C45", "U+1C46", "U+1C47", "U+1C48", "U+1C49">>,
      <<"U+1C50", "U+1C51", "U+1C52", "U+1C53", "U+1C54",
        "U+1C55", "U+1C56", "U+1C57", "U+1C58", "U+1C59">>,
      <<"U+A620", "U+A621", "U+A622", "U+A623", "U+A624",
        "U+A625", "U+A626", "U+A627", "U+A628", "U+A629">>,
      <<"U+A8D0", "U+A8D1", "U+A8D2", "U+A8D3", "U+A8D4",
        "U+A8D5", "U+A8D6", "U+A8D7", "U+A8D8", "U+A8D9">>,
      <<"U+A900", "U+A901", "U+A902", "U+A903", "U+A904",
        "U+A905", "U+A906", "U+A907", "U+A908", "U+A909">>,
      <<"U+A9D0", "U+A9D1", "U+A9D2", "U+A9D3", "U+A9D4",
        "U+A9D5", "U+A9D6", "U+A9D7", "U+A9D8", "U+A9D9">>,
      <<"U+A9F0", "U+A9F1", "U+A9F2", "U+A9F3", "U+A9F4",
        "U+A9F5", "U+A9F6", "U+A9F7", "U+A9F8", "U+A9F9">>,
      <<"U+AA50", "U+AA51", "U+AA52", "U+AA53", "U+AA54",
        "U+AA55", "U+AA56", "U+AA57", "U+AA58", "U+AA59">>,
      <<"U+ABF0", "U+ABF1", "U+ABF2", "U+ABF3", "U+ABF4",
        "U+ABF5", "U+ABF6", "U+ABF7", "U+ABF8", "U+ABF9">>,
      <<"U+FF10", "U+FF11", "U+FF12", "U+FF13", "U+FF14",
        "U+FF15", "U+FF16", "U+FF17", "U+FF18", "U+FF19">>,
      <<"U+104A0", "U+104A1", "U+104A2", "U+104A3", "U+104A4",
        "U+104A5", "U+104A6", "U+104A7", "U+104A8", "U+104A9">>,
      <<"U+10D30", "U+10D31", "U+10D32", "U+10D33", "U+10D34",
        "U+10D35", "U+10D36", "U+10D37", "U+10D38", "U+10D39">>,
      <<"U+11066", "U+11067", "U+11068", "U+11069", "U+1106A",
        "U+1106B", "U+1106C", "U+1106D", "U+1106E", "U+1106F">>,
      <<"U+110F0", "U+110F1", "U+110F2", "U+110F3", "U+110F4",
        "U+110F5", "U+110F6", "U+110F7", "U+110F8", "U+110F9">>,
      <<"U+11136", "U+11137", "U+11138", "U+11139", "U+1113A",
        "U+1113B", "U+1113C", "U+1113D", "U+1113E", "U+1113F">>,
      <<"U+111D0", "U+111D1", "U+111D2", "U+111D3", "U+111D4",
        "U+111D5", "U+111D6", "U+111D7", "U+111D8", "U+111D9">>,
      <<"U+112F0", "U+112F1", "U+112F2", "U+112F3", "U+112F4",
        "U+112F5", "U+112F6", "U+112F7", "U+112F8", "U+112F9">>,
      <<"U+11450", "U+11451", "U+11452", "U+11453", "U+11454",
        "U+11455", "U+11456", "U+11457", "U+11458", "U+11459">>,
      <<"U+114D0", "U+114D1", "U+114D2", "U+114D3", "U+114D4",
        "U+114D5", "U+114D6", "U+114D7", "U+114D8", "U+114D9">>,
      <<"U+11650", "U+11651", "U+11652", "U+11653", "U+11654",
        "U+11655", "U+11656", "U+11657", "U+11658", "U+11659">>,
      <<"U+116C0", "U+116C1", "U+116C2", "U+116C3", "U+116C4",
        "U+116C5", "U+116C6", "U+116C7", "U+116C8", "U+116C9">>,
      <<"U+11730", "U+11731", "U+11732", "U+11733", "U+11734",
        "U+11735", "U+11736", "U+11737", "U+11738", "U+11739">>,
      <<"U+118E0", "U+118E1", "U+118E2", "U+118E3", "U+118E4",
        "U+118E5", "U+118E6", "U+118E7", "U+118E8", "U+118E9">>,
      <<"U+11950", "U+11951", "U+11952", "U+11953", "U+11954",
        "U+11955", "U+11956", "U+11957", "U+11958", "U+11959">>,
      <<"U+11C50", "U+11C51", "U+11C52", "U+11C53", "U+11C54",
        "U+11C55", "U+11C56", "U+11C57", "U+11C58", "U+11C59">>,
      <<"U+11D50", "U+11D51", "U+11D52", "U+11D53", "U+11D54",
        "U+11D55", "U+11D56", "U+11D57", "U+11D58", "U+11D59">>,
      <<"U+11DA0", "U+11DA1", "U+11DA2", "U+11DA3", "U+11DA4",
        "U+11DA5", "U+11DA6", "U+11DA7", "U+11DA8", "U+11DA9">>,
      <<"U+16A60", "U+16A61", "U+16A62", "U+16A63", "U+16A64",
        "U+16A65", "U+16A66", "U+16A67", "U+16A68", "U+16A69">>,
      <<"U+16AC0", "U+16AC1", "U+16AC2", "U+16AC3", "U+16AC4",
        "U+16AC5", "U+16AC6", "U+16AC7", "U+16AC8", "U+16AC9">>,
      <<"U+16B50", "U+16B51", "U+16B52", "U+16B53", "U+16B54",
        "U+16B55", "U+16B56", "U+16B57", "U+16B58", "U+16B59">>,
      <<"U+1D7CE", "U+1D7CF", "U+1D7D0", "U+1D7D1", "U+1D7D2",
        "U+1D7D3", "U+1D7D4", "U+1D7D5", "U+1D7D6", "U+1D7D7">>,
      <<"U+1D7D8", "U+1D7D9", "U+1D7DA", "U+1D7DB", "U+1D7DC",
        "U+1D7DD", "U+1D7DE", "U+1D7DF", "U+1D7E0", "U+1D7E1">>,
      <<"U+1D7E2", "U+1D7E3", "U+1D7E4", "U+1D7E5", "U+1D7E6",
        "U+1D7E7", "U+1D7E8", "U+1D7E9", "U+1D7EA", "U+1D7EB">>,
      <<"U+1D7EC", "U+1D7ED", "U+1D7EE", "U+1D7EF", "U+1D7F0",
        "U+1D7F1", "U+1D7F2", "U+1D7F3", "U+1D7F4", "U+1D7F5">>,
      <<"U+1D7F6", "U+1D7F7", "U+1D7F8", "U+1D7F9", "U+1D7FA",
        "U+1D7FB", "U+1D7FC", "U+1D7FD", "U+1D7FE", "U+1D7FF">>,
      <<"U+1E140", "U+1E141", "U+1E142", "U+1E143", "U+1E144",
        "U+1E145", "U+1E146", "U+1E147", "U+1E148", "U+1E149">>,
      <<"U+1E2F0", "U+1E2F1", "U+1E2F2", "U+1E2F3", "U+1E2F4",
        "U+1E2F5", "U+1E2F6", "U+1E2F7", "U+1E2F8", "U+1E2F9">>,
      <<"U+1E950", "U+1E951", "U+1E952", "U+1E953", "U+1E954",
        "U+1E955", "U+1E956", "U+1E957", "U+1E958", "U+1E959">>,
      <<"U+1FBF0", "U+1FBF1", "U+1FBF2", "U+1FBF3", "U+1FBF4",
        "U+1FBF5", "U+1FBF6", "U+1FBF7", "U+1FBF8", "U+1FBF9">> }

\* the value of each of these digits
UnicodeDigitValue ==
    [c \in UNION {{r[k] : k \in 1..10} : r \in UnicodeDigitRows} |->
        (CHOOSE k \in 1..10 : \E r \in UnicodeDigitRows : r[k] = c) - 1]

\* the value of a character that is no ASCII digit: of a digit of another script, or -1
OtherDigit(c) == IF c \in DOMAIN UnicodeDigitValue THEN UnicodeDigitValue[c] ELSE -1

\* the value of c as a digit of int(.., 16), or -1
HexVal(c) ==
    CASE c = "0" -> 0 [] c = "1" -> 1 [] c = "2" -> 2 [] c = "3" -> 3
      [] c = "4" -> 4 [] c = "5" -> 5 [] c = "6" -> 6 [] c = "7" -> 7
      [] c = "8" -> 8 [] c = "9" -> 9
      [] c \in {"a", "A"} -> 10 [] c \in {"b", "B"} -> 11
      [] c \in {"c", "C"} -> 12 [] c \in {"d", "D"} -> 13
      [] c \in {"e", "E"} -> 14 [] c \in {"f", "F"} -> 15
      [] OTHER -> OtherDigit(c)

IsHexDigit(c) == HexVal(c) >= 0

\* what a call of int() gives: the int it returns, or that it raises ValueError
IntOk(v) == [ok |-> TRUE, val |-> v]

IntRaised == [ok |-> FALSE, val |-> 0]

RECURSIVE LStripSet(_, _)
LStripSet(s, cs) == IF s # <<>> /\ Head(s) \in cs THEN LStripSet(Tail(s), cs) ELSE s

RECURSIVE RStripSet(_, _)
RStripSet(s, cs) ==
    IF s # <<>> /\ s[Len(s)] \in cs THEN RStripSet(SubSeq(s, 1, Len(s) - 1), cs) ELSE s

\* int(s, 16) for a string s of two characters: whitespace around the number is
\* skipped, then one hex digit, two hex digits, or a sign and one hex digit are read
\* (a prefix 0x or an underscore leaves no room for the digits they need)
HexByte(s) ==
    LET t == RStripSet(LStripSet(s, NumericWhitespace), NumericWhitespace)
    IN IF Len(t) = 2 /\ IsHexDigit(t[1]) /\ IsHexDigit(t[2])
       THEN IntOk(16 * HexVal(t[1]) + HexVal(t[2]))
       ELSE IF Len(t) = 2 /\ t[1] = "+" /\ IsHexDigit(t[2]) THEN IntOk(HexVal(t[2]))
       ELSE IF Len(t) = 2 /\ t[1] = "-" /\ IsHexDigit(t[2]) THEN IntOk(-HexVal(t[2]))
       ELSE IF Len(t) = 1 /\ IsHexDigit(t[1]) THEN IntOk(HexVal(t[1]))
       ELSE IntRaised

----------------------------------------------------------------------------
(* Natural numbers of any size: the digits in base BigBase = 2^LimbBits, lowest
   first, no leading zero digit; <<>> is zero *)

LimbBits == 15

BigBase == 2 ^ LimbBits

\* the digit i of a, zero above its highest digit
Limb(a, i) == IF i <= Len(a) THEN a[i] ELSE 0

Significant(a) == {i \in 1..Len(a) : a[i] # 0}

\* a without its leading zero digits
BigNorm(a) ==
    IF Significant(a) = {} THEN <<>>
    ELSE SubSeq(a, 1, CHOOSE i \in Significant(a) : \A j \in Significant(a) : j <= i)

RECURSIVE BigOfNat(_)
BigOfNat(n) == IF n = 0 THEN <<>> ELSE <<n % BigBase>> \o BigOfNat(n \div BigBase)

RECURSIVE BigToNat(_)
BigToNat(a) == IF a = <<>> THEN 0 ELSE a[1] + BigBase * BigToNat(Tail(a))

\* -1, 0 or 1 as a < b, a = b or a > b
BigCmp(a, b) ==
    IF Len(a) # Len(b) THEN (IF Len(a) < Len(b) THEN -1 ELSE 1)
    ELSE IF a = b THEN 0
    ELSE LET k == CHOOSE i \in 1..Len(a) : a[i] # b[i] /\ \A j \in (i + 1)..Len(a) : a[j] = b[j]
         IN IF a[k] < b[k] THEN -1 ELSE 1

Max(a, b) == IF a > b THEN a ELSE b

Min(a, b) == IF a < b THEN a ELSE b

\* the carry into the digit i of a + b: a digit below overflows and every digit
\* between passes the carry on
CarryIn(a, b, i) ==
    IF \E j \in 1..(i - 1) :
          /\ Limb(a, j) + Limb(b, j) >= BigBase
          /\ \A k \in (j + 1)..(i - 1) : Limb(a, k) + Limb(b, k) = BigBase - 1
    THEN 1
    ELSE 0

\* a + b; a and b may have leading zero digits
BigAdd(a, b) ==
    BigNorm([i \in 1..(Max(Len(a), Len(b)) + 1) |->
                (Limb(a, i) + Limb(b, i) + CarryIn(a, b, i)) % BigBase])

\* the borrow from the digit i of a - b
BorrowIn(a, b, i) ==
    IF \E j \in 1..(i - 1) :
          /\ Limb(a, j) < Limb(b, j)
          /\ \A k \in (j + 1)..(i - 1) : Limb(a, k) = Limb(b, k)
    THEN 1
    ELSE 0

\* a - b, for a >= b
BigSub(a, b) ==
    BigNorm([i \in 1..Len(a) |-> (a[i] - Limb(b, i) - BorrowIn(a, b, i) + BigBase) % BigBase])

\* a * k, for 0 <= k <= BigBase: the low halves of the products of the digits, plus
\* their high halves one digit up
BigMulSmall(a, k) ==
    BigAdd([i \in 1..Len(a) |-> (a[i] * k) % BigBase],
           <<0>> \o [i \in 1..Len(a) |-> (a[i] * k) \div BigBase])

\* a * BigBase^k
BigShiftLimbs(a, k) == IF a = <<>> THEN <<>> ELSE [i \in 1..k |-> 0] \o a

\* a * 2^k
BigShl(a, k) == BigShiftLimbs(BigMulSmall(a, 2 ^ (k % LimbBits)), k \div LimbBits)

BigPow2(k) == BigShl(<<1>>, k)

\* a * b, by halves of the digits of b (which may have leading zero digits)
RECURSIVE BigMulBy(_, _)
BigMulBy(a, b) ==
    IF b = <<>> THEN <<>>
    ELSE IF Len(b) = 1 THEN BigMulSmall(a, b[1])
    ELSE BigAdd(BigMulBy(a, SubSeq(b, 1, Len(b) \div 2)),
                BigShiftLimbs(BigMulBy(a, SubSeq(b, Len(b) \div 2 + 1, Len(b))), Len(b) \div 2))

BigMul(a, b) == IF Len(a) < Len(b) THEN BigMulBy(b, a) ELSE BigMulBy(a, b)

RECURSIVE BitLenSmall(_)
BitLenSmall(n) == IF n = 0 THEN 0 ELSE 1 + BitLenSmall(n \div 2)

\* the number of binary digits of a
BitLen(a) == IF a = <<>> THEN 0 ELSE LimbBits * (Len(a) - 1) + BitLenSmall(a[Len(a)])

\* the largest k in lo..hi with k * d <= r, given lo * d <= r
RECURSIVE BigDigit(_, _, _, _)
BigDigit(r, d, lo, hi) ==
    IF lo = hi THEN lo
    ELSE IF BigCmp(BigMulSmall(d, (lo + hi + 1) \div 2), r) <= 0
         THEN BigDigit(r, d, (lo + hi + 1) \div 2, hi)
         ELSE BigDigit(r, d, lo, (lo + hi + 1) \div 2 - 1)

BigTake(k, r, d, q) == [q |-> <<k>> \o q, r |-> BigSub(r, BigMulSmall(d, k))]

\* one step of long division: the digit x is brought down to the remainder
BigBring(x, d, qr) ==
    BigTake(BigDigit(BigNorm(<<x>> \o qr.r), d, 0, BigBase - 1), BigNorm(<<x>> \o qr.r), d, qr.q)

\* long division of the digits i.. of n by d; the highest Len(d) - 1 digits of n
\* are less than d
RECURSIVE BigDivFrom(_, _, _)
BigDivFrom(n, i, d) ==
    IF i > Len(n) - Len(d) + 1 THEN [q |-> <<>>, r |-> BigNorm(SubSeq(n, i, Len(n)))]
    ELSE BigBring(n[i], d, BigDivFrom(n, i + 1, d))

Quotient(qr) == [q |-> BigNorm(qr.q), r |-> qr.r]

\* the quotient q and the remainder r of n by d, for d > 0
BigDivMod(n, d) == Quotient(BigDivFrom(n, 1, d))

BigSquare(a) == BigMul(a, a)

RECURSIVE BigPow10(_)
BigPow10(k) ==
    IF k <= 4 THEN BigOfNat(10 ^ k)
    ELSE BigMulSmall(BigSquare(BigPow10(k \div 2)), IF k % 2 = 1 THEN 10 ELSE 1)

BigIsOdd(a) == a # <<>> /\ a[1] % 2 = 1

----------------------------------------------------------------------------
(* Python floats: IEEE 754 binary64. A finite float is sign * m * 2^e with m a
   natural number below 2^53 (not necessarily normalized) *)

Fin(s, m, e) == [kind |-> "fin", sign |-> s, m |-> m, e |-> IF m = <<>> THEN 0 ELSE e]

Inf(s) == [kind |-> "inf", sign |-> s, m |-> <<>>, e |-> 0]

NaN == [kind |-> "nan", sign |-> 1, m |-> <<>>, e |-> 0]

\* the float of a natural number below 2^31
FloatOfNat(n) == Fin(1, BigOfNat(n), 0)

MantissaBits == 53

MinExponent == -1074

MaxExponent == 971

IsZero(x) == x.kind = "fin" /\ x.m = <<>>

Pos(k) == IF k > 0 THEN k ELSE 0

\* a quotient with its remainder by d, times 2^e, rounded to nearest, ties to even
\* q or q + 1, as twice the remainder compares with the divisor (c is -1, 0 or 1)
RoundedUp(c, q) == IF c > 0 \/ (c = 0 /\ BigIsOdd(q)) THEN BigAdd(q, <<1>>) ELSE q

Rounded(qr, d) == RoundedUp(BigCmp(BigShl(qr.r, 1), d), qr.q)

\* m * 2^e for m <= 2^53: rounding up to 2^53 takes the next exponent
Carried(s, m, e) ==
    IF BitLen(m) > MantissaBits THEN Fin(s, BigPow2(MantissaBits - 1), e + 1) ELSE Fin(s, m, e)

Finite(x) == IF x.e > MaxExponent THEN Inf(x.sign) ELSE x

RoundedAt(s, qr, d, e) == Finite(Carried(s, Rounded(qr, d), e))

\* n / (d * 2^e) >= 2^53
Above(n, d, e) == BigCmp(BigShl(n, Pos(-e)), BigShl(d, Pos(e) + MantissaBits)) >= 0

\* the exponent e of the float nearest to n / d: n / (d * 2^e) is in 2^52 .. 2^53 - 1,
\* or e is MinExponent
Lifted(n, d, e) == Max(MinExponent, IF Above(n, d, e) THEN e + 1 ELSE e)

ExponentOf(n, d) == Lifted(n, d, BitLen(n) - BitLen(d) - MantissaBits)

RoundAt(s, n, d, e) == RoundedAt(s, BigDivMod(n, d), d, e)

RoundAtExponent(s, n, d, e) == RoundAt(s, BigShl(n, Pos(-e)), BigShl(d, Pos(e)), e)

\* the float nearest to s * n / d (ties to even; infinite on overflow), for d > 0
RoundRatio(s, n, d) ==
    IF n = <<>> THEN Fin(s, <<>>, 0) ELSE RoundAtExponent(s, n, d, ExponentOf(n, d))

\* the float nearest to s * n * 2^e
RoundScaled(s, n, e) == RoundRatio(s, BigShl(n, Pos(e)), BigPow2(Pos(-e)))

FNeg(x) == IF x.kind = "nan" THEN x ELSE [x EXCEPT !.sign = -x.sign]

\* the sum of s1 * a * 2^e and s2 * b * 2^e, for a and b not zero: it has the sign
\* of the larger term, and is +0 when the terms cancel
SignedSum(s1, a, s2, b, e) ==
    RoundScaled(IF s1 = s2 THEN s1 ELSE IF a = b THEN 1 ELSE IF BigCmp(a, b) > 0 THEN s1 ELSE s2,
                IF s1 = s2 THEN BigAdd(a, b)
                ELSE IF BigCmp(a, b) > 0 THEN BigSub(a, b) ELSE BigSub(b, a),
                e)

\* the m of the finite float x when it is written with the exponent e <= x.e
Aligned(x, e) == BigShl(x.m, x.e - e)

\* x + y
FAdd(x, y) ==
    IF x.kind = "nan" \/ y.kind = "nan" THEN NaN
    ELSE IF x.kind = "inf" /\ y.kind = "inf" THEN (IF x.sign = y.sign THEN x ELSE NaN)
    ELSE IF x.kind = "inf" THEN x
    ELSE IF y.kind = "inf" THEN y
    ELSE IF IsZero(x) THEN (IF IsZero(y) THEN Fin(IF x.sign = y.sign THEN x.sign ELSE 1, <<>>, 0) ELSE y)
    ELSE IF IsZero(y) THEN x
    ELSE SignedSum(x.sign, Aligned(x, Min(x.e, y.e)), y.sign, Aligned(y, Min(x.e, y.e)),
                   Min(x.e, y.e))

\* x - y
FSub(x, y) == FAdd(x, FNeg(y))

\* x * y
FMul(x, y) ==
    IF x.kind = "nan" \/ y.kind = "nan" THEN NaN
    ELSE IF x.kind = "inf" \/ y.kind = "inf"
         THEN (IF IsZero(x) \/ IsZero(y) THEN NaN ELSE Inf(x.sign * y.sign))
    ELSE RoundScaled(x.sign * y.sign, BigMul(x.m, y.m), x.e + y.e)

\* x / y, for y finite and not zero
FDiv(x, y) ==
    IF x.kind = "nan" THEN NaN
    ELSE IF x.kind = "inf" THEN Inf(x.sign * y.sign)
    ELSE RoundRatio(x.sign * y.sign, BigShl(x.m, Pos(x.e - y.e)), BigShl(y.m, Pos(y.e - x.e)))

\* -1, 0 or 1 as x < y, x = y or x > y, for x and y not NaN
FCmp(x, y) ==
    IF x.kind = "inf" \/ y.kind = "inf"
    THEN LET a == IF x.kind = "inf" THEN x.sign ELSE 0
             b == IF y.kind = "inf" THEN y.sign ELSE 0
         IN IF a < b THEN -1 ELSE IF a > b THEN 1 ELSE 0
    ELSE IF IsZero(x) /\ IsZero(y) THEN 0
    ELSE IF IsZero(x) THEN -y.sign
    ELSE IF IsZero(y) THEN x.sign
    ELSE IF x.sign # y.sign THEN x.sign
    ELSE x.sign * BigCmp(Aligned(x, Min(x.e, y.e)), Aligned(y, Min(x.e, y.e)))

\* x < y, x <= y and x == y: False when either is NaN
FLess(x, y) == x.kind # "nan" /\ y.kind # "nan" /\ FCmp(x, y) < 0

FLessEq(x, y) == x.kind # "nan" /\ y.kind # "nan" /\ FCmp(x, y) <= 0

FEq(x, y) == x.kind # "nan" /\ y.kind # "nan" /\ FCmp(x, y) = 0

\* the fractional part of the absolute value of a finite float, which is a float
Frac(x) == IF x.e >= 0 THEN Fin(1, <<>>, 0) ELSE Fin(1, BigDivMod(x.m, BigPow2(-x.e)).r, x.e)

\* fmod(x, 1.0), which is sign * f, moved into [0, 1) by adding 1.0 when it is negative
Wrapped(sign, f) ==
    IF IsZero(f) THEN Fin(1, <<>>, 0)
    ELSE IF sign < 0 THEN FAdd(FNeg(f), FloatOfNat(1))
    ELSE f

\* x % 1.0
FMod1(x) == IF x.kind # "fin" THEN NaN ELSE Wrapped(x.sign, Frac(x))

NaNToIntError == "ValueError: cannot convert float NaN to integer"

InfToIntError == "OverflowError: cannot convert float infinity to integer"

\* the error int(x) raises, or "" when x is finite
IntError(x) ==
    IF x.kind = "nan" THEN NaNToIntError
    ELSE IF x.kind = "inf" THEN InfToIntError
    ELSE ""

\* int(x) for a finite x: truncation toward zero. The result has to be below 2^31 in
\* size: larger integers are beyond TLC
FToInt(x) == x.sign * BigToNat(BigDivMod(BigShl(x.m, Pos(x.e)), BigPow2(Pos(-x.e))).q)

----------------------------------------------------------------------------
(* float(s) *)

DecDigit(c) ==
    CASE c = "0" -> 0 [] c = "1" -> 1 [] c = "2" -> 2 [] c = "3" -> 3 [] c = "4" -> 4
      [] c = "5" -> 5 [] c = "6" -> 6 [] c = "7" -> 7 [] c = "8" -> 8 [] c = "9" -> 9
      [] OTHER -> OtherDigit(c)

IsDigit(c) == DecDigit(c) >= 0

\* underscores stand only between two digits
UnderscoresOk(s) ==
    \A i \in 1..Len(s) :
        s[i] = "_" => (i > 1 /\ i < Len(s) /\ IsDigit(s[i - 1]) /\ IsDigit(s[i + 1]))

NoUnderscores(s) == SelectSeq(s, LAMBDA c : c # "_")

\* the number of digits s has from position i on
RECURSIVE DigitsFrom(_, _)
DigitsFrom(s, i) == IF i <= Len(s) /\ IsDigit(s[i]) THEN 1 + DigitsFrom(s, i + 1) ELSE 0

\* the number a string of decimal digits writes
RECURSIVE BigOfDigits(_)
BigOfDigits(ds) ==
    IF ds = <<>> THEN <<>>
    ELSE IF Len(ds) = 1 THEN BigOfNat(DecDigit(ds[1]))
    ELSE BigAdd(BigMul(BigOfDigits(SubSeq(ds, 1, Len(ds) \div 2)),
                       BigPow10(Len(ds) - Len(ds) \div 2)),
                BigOfDigits(SubSeq(ds, Len(ds) \div 2 + 1, Len(ds))))

\* what float() reads an exponent of more than 9 significant digits as (MAX_ABS_EXP of
\* CPython's dtoa.c): the number is then infinite or zero whatever its digits are
MAX_ABS_EXP == 1100000000

\* the exponent a string of decimal digits writes: the number it writes when it has
\* at most 9 digits after its leading zeros, MAX_ABS_EXP when it has more
CappedNat(ds) ==
    IF Len(LStrip(ds, "0")) > 9 THEN MAX_ABS_EXP ELSE BigToNat(BigOfDigits(LStrip(ds, "0")))

FloatOk(x) == [ok |-> TRUE, val |-> x]

FloatRaised == [ok |-> FALSE, val |-> NaN]

\* the float nearest to sign * digits * 10^x. A number of 10^310 or more is infinite
\* and one below 10^-324 is zero whatever its digits are.
DecimalValue(sign, digits, x) ==
    LET sig == LStrip(digits, "0")
    IN IF sig = <<>> THEN Fin(sign, <<>>, 0)
       ELSE IF Len(sig) + x > 310 THEN Inf(sign)
       ELSE IF Len(sig) + x < -323 THEN Fin(sign, <<>>, 0)
       ELSE RoundRatio(sign, BigMul(BigOfDigits(sig), BigPow10(Pos(x))), BigPow10(Pos(-x)))

\* the exponent part of s from position i (where an e or E stands) to the end
ExponentAt(s, i) ==
    LET j == IF i + 1 <= Len(s) /\ s[i + 1] \in {"+", "-"} THEN i + 2 ELSE i + 1
        n == DigitsFrom(s, j)
    IN IF n = 0 \/ j + n - 1 # Len(s) THEN [ok |-> FALSE, val |-> 0]
       ELSE [ok |-> TRUE,
             val |-> (IF s[j - 1] = "-" THEN -1 ELSE 1) * CappedNat(SubSeq(s, j, Len(s)))]

\* the most digits float() takes: those before the point after their leading zeros,
\* and all those after the point (MAX_DIGITS of CPython's dtoa.c)
MAX_DIGITS == 1000000000

\* a decimal number without sign: digits, optionally a point and digits, optionally
\* an exponent; at least one digit before the exponent, and no more than MAX_DIGITS
DecimalFloat(sign, s) ==
    LET ni == DigitsFrom(s, 1)
        point == ni + 1 <= Len(s) /\ s[ni + 1] = "."
        nf == IF point THEN DigitsFrom(s, ni + 2) ELSE 0
        k == ni + (IF point THEN 1 ELSE 0) + nf + 1
        digits == SubSeq(s, 1, ni) \o (IF point THEN SubSeq(s, ni + 2, ni + 1 + nf) ELSE <<>>)
        ex == IF k <= Len(s) /\ s[k] \in {"e", "E"} THEN ExponentAt(s, k)
              ELSE [ok |-> k = Len(s) + 1, val |-> 0]
    IN IF ni + nf = 0 \/ ~ex.ok \/ Len(LStrip(SubSeq(s, 1, ni), "0")) + nf > MAX_DIGITS
       THEN FloatRaised
       ELSE FloatOk(DecimalValue(sign, digits, ex.val - nf))

Lower(c) ==
    CASE c = "I" -> "i" [] c = "N" -> "n" [] c = "F" -> "f" [] c = "T" -> "t"
      [] c = "Y" -> "y" [] c = "A" -> "a" [] OTHER -> c

Unsigned(sign, s) ==
    LET w == [i \in 1..Len(s) |-> Lower(s[i])]
    IN IF w \in {<<"i", "n", "f">>, <<"i", "n", "f", "i", "n", "i", "t", "y">>}
       THEN FloatOk(Inf(sign))
       ELSE IF w = <<"n", "a", "n">> THEN FloatOk(NaN)
       ELSE DecimalFloat(sign, s)

Signed(s) ==
    Unsigned(IF s # <<>> /\ s[1] = "-" THEN -1 ELSE 1,
             IF s # <<>> /\ s[1] \in {"+", "-"} THEN Tail(s) ELSE s)

\* s with every decimal digit of another script written as its ASCII digit, which is
\* how float() reads them
AsciiDigits(s) ==
    [i \in 1..Len(s) |-> IF IsDigit(s[i]) THEN DigitChars[DecDigit(s[i]) + 1] ELSE s[i]]

\* float(s): the float it returns, or that it raises ValueError
float(s) ==
    LET t == AsciiDigits(RStripSet(LStripSet(s, NumericWhitespace), NumericWhitespace))
    IN IF UnderscoresOk(t) THEN Signed(NoUnderscores(t)) ELSE FloatRaised

----------------------------------------------------------------------------
(* colorsys *)

ONE_THIRD == FDiv(FloatOfNat(1), FloatOfNat(3))

ONE_SIXTH == FDiv(FloatOfNat(1), FloatOfNat(6))

TWO_THIRD == FDiv(FloatOfNat(2), FloatOfNat(3))

Half == FDiv(FloatOfNat(1), FloatOfNat(2))

\* colorsys._v once hue % 1.0 is taken
v_of(m1, m2, hue) ==
    IF FLess(hue, ONE_SIXTH)
    THEN FAdd(m1, FMul(FMul(FSub(m2, m1), hue), FloatOfNat(6)))
    ELSE IF FLess(hue, Half) THEN m2
    ELSE IF FLess(hue, TWO_THIRD)
    THEN FAdd(m1, FMul(FMul(FSub(m2, m1), FSub(TWO_THIRD, hue)), FloatOfNat(6)))
    ELSE m1

\* colorsys._v(m1, m2, hue)
hls_v(m1, m2, hue) == v_of(m1, m2, FMod1(hue))

\* the hues of red, green and blue: h+ONE_THIRD, h, h-ONE_THIRD
Shifted(h, i) == IF i = 2 THEN h ELSE FAdd(h, IF i = 1 THEN ONE_THIRD ELSE FNeg(ONE_THIRD))

\* (_v(m1, m2, h+ONE_THIRD), _v(m1, m2, h), _v(m1, m2, h-ONE_THIRD))
rgb_of(m1, m2, h) == [i \in 1..3 |-> hls_v(m1, m2, Shifted(h, i))]

m1_of(l, m2) == FSub(FMul(FloatOfNat(2), l), m2)

m2_of(l, s) ==
    IF FLessEq(l, Half) THEN FMul(l, FAdd(FloatOfNat(1), s))
    ELSE FSub(FAdd(l, s), FMul(l, s))

m1_m2(l, m2, h) == rgb_of(m1_of(l, m2), m2, h)

\* colorsys.hls_to_rgb(h, l, s)
hls_to_rgb(h, l, s) ==
    IF FEq(s, FloatOfNat(0)) THEN <<l, l, l>> ELSE m1_m2(l, m2_of(l, s), h)

----------------------------------------------------------------------------
(* Escape code builder: colour normalisation *)

Ok(rgb) == [err |-> "", rgb |-> rgb]

Raise(e) == [err |-> e, rgb |-> <<>>]

HexFormatError == "ValueError: Invalid HEX color format."

HexDigitError == "ValueError: invalid literal for int() with base 16"

FloatError == "ValueError: could not convert string to float"

IndexError == "IndexError: list index out of range"

UnsupportedFormatError == "ValueError: Unsupported color format. Use HEX or HSL."

ColorSpecError ==
    "ValueError: Invalid color specification. Provide either a color string or RGB tuple."

UnpackError == "ValueError: wrong number of values to unpack"

ThemeError == "ValueError: Unsupported theme. Use 'dark' or 'light'."

\* r, g, b of the HEX branch once every int(.., 16) has returned or raised
hex_result(r, g, b) ==
    IF ~r.ok \/ ~g.ok \/ ~b.ok THEN Raise(HexDigitError) ELSE Ok(<<r.val, g.val, b.val>>)

\* normalize_hex as it would be if exactly one leading '#' were removed
normalize_hex_one_hash(color) ==
    LET c == Tail(color)
    IN IF Len(c) = 6
       THEN hex_result(HexByte(SubSeq(c, 1, 2)), HexByte(SubSeq(c, 3, 4)), HexByte(SubSeq(c, 5, 6)))
       ELSE IF Len(c) = 3
       THEN hex_result(HexByte(<<c[1], c[1]>>), HexByte(<<c[2], c[2]>>), HexByte(<<c[3], c[3]>>))
       ELSE Raise(HexFormatError)

\* the HEX branch of _normalize_color, after color.startswith('#')
normalize_hex(color) ==
    LET c == LStrip(color, "#")
    IN IF Len(c) = 6
       THEN hex_result(HexByte(SubSeq(c, 1, 2)), HexByte(SubSeq(c, 3, 4)), HexByte(SubSeq(c, 5, 6)))
       ELSE IF Len(c) = 3
       THEN hex_result(HexByte(<<c[1], c[1]>>), HexByte(<<c[2], c[2]>>), HexByte(<<c[3], c[3]>>))
       ELSE Raise(HexFormatError)

\* int(r), int(g), int(b) of the three products, in this order
channels(x) ==
    IF \E i \in 1..3 : IntError(x[i]) # ""
    THEN Raise(IntError(x[CHOOSE i \in 1..3 : IntError(x[i]) # "" /\ \A j \in 1..(i - 1) : IntError(x[j]) = ""]))
    ELSE Ok([i \in 1..3 |-> FToInt(x[i])])

\* x * 255
Scaled(x) == FMul(x, FloatOfNat(255))

\* lines 212-213: r, g, b = the tuple colorsys returned, then the three int(.. * 255)
hls_to_rgb255(rgb) ==
    IF Len(rgb) # 3 THEN Raise(UnpackError) ELSE channels([i \in 1..3 |-> Scaled(rgb[i])])

\* line 211: float(hsl[0]), float(hsl[1].strip('%')) and float(hsl[2].strip('%')), for
\* the parts that hsl has (it has a first one)
hsl_floats(hsl) ==
    [i \in 1..Min(3, Len(hsl)) |-> float(IF i = 1 THEN hsl[i] ELSE Strip(hsl[i], "%"))]

\* what line 211 raises, or "": the parts are taken and converted from left to right
hsl_error(f) ==
    IF Len(f) = 0 THEN IndexError
    ELSE IF ~f[1].ok THEN FloatError
    ELSE IF Len(f) < 2 THEN IndexError
    ELSE IF ~f[2].ok THEN FloatError
    ELSE IF Len(f) < 3 THEN IndexError
    ELSE IF ~f[3].ok THEN FloatError
    ELSE ""

\* h / 360 (line 212), s / 100 and l / 100 (line 211)
hsl_ratios(f) == [i \in 1..3 |-> FDiv(f[i].val, FloatOfNat(IF i = 1 THEN 360 ELSE 100))]

\* lines 212-213 for the ratios of h, s and l: colorsys takes them as h, l, s
hsl_converted(v) ==
    IF Len(v) # 3 THEN Raise(UnpackError) ELSE hls_to_rgb255(hls_to_rgb(v[1], v[3], v[2]))

hsl_checked(e, f) == IF e # "" THEN Raise(e) ELSE hsl_converted(hsl_ratios(f))

hsl_parsed(f) == hsl_checked(hsl_error(f), f)

\* the HSL branch of _normalize_color, after color.startswith('hsl(')
normalize_hsl(color) == hsl_parsed(hsl_floats(SplitOn(SubSeq(color, 5, Len(color) - 1), ",")))

normalize_color(color) ==
    IF StartsWith(color, <<"#">>) THEN normalize_hex(color)
    ELSE IF StartsWith(color, <<"h", "s", "l", "(">>) THEN normalize_hsl(color)
    ELSE Raise(UnsupportedFormatError)

----------------------------------------------------------------------------
(* Manifest verifier: ThemeManager.validate_theme *)

themes_dir == <<"t", "h", "e", "m", "e", "s", ".", "d">>

default_theme == <<"m", "o", "n", "o", "k", "a", "i">>

Nord == <<"n", "o", "r", "d">>

\* hashlib.sha256(b'').hexdigest()
DigestOfEmpty ==
    <<"e", "3", "b", "0", "c", "4", "4", "2", "9", "8", "f", "c", "1", "c", "1", "4",
      "9", "a", "f", "b", "f", "4", "c", "8", "9", "9", "6", "f", "b", "9", "2", "4",
      "2", "7", "a", "e", "4", "1", "e", "4", "6", "4", "9", "b", "9", "3", "4", "c",
      "a", "4", "9", "5", "9", "9", "1", "b", "7", "8", "5", "2", "b", "8", "5", "5">>

\* hashlib.sha256(b'a').hexdigest()
DigestOfA ==
    <<"c", "a", "9", "7", "8", "1", "1", "2", "c", "a", "1", "b", "b", "d", "c", "a",
      "f", "a", "c", "2", "3", "1", "b", "3", "9", "a", "2", "3", "d", "c", "4", "d",
      "a", "7", "8", "6", "e", "f", "f", "8", "1", "4", "7", "c", "4", "e", "7", "2",
      "b", "9", "8", "0", "7", "7", "8", "5", "a", "f", "e", "e", "4", "8", "b", "b">>

\* DigestOfEmpty in upper case
DigestOfEmptyUpper ==
    <<"E", "3", "B", "0", "C", "4", "4", "2", "9", "8", "F", "C", "1", "C", "1", "4",
      "9", "A", "F", "B", "F", "4", "C", "8", "9", "9", "6", "F", "B", "9", "2", "4",
      "2", "7", "A", "E", "4", "1", "E", "4", "6", "4", "9", "B", "9", "3", "4", "C",
      "A", "4", "9", "5", "9", "9", "1", "B", "7", "8", "5", "2", "B", "8", "5", "5">>

\* hashlib.sha256(data).hexdigest(), for the file contents of this model
sha256_hexdigest(data) == IF data = <<>> THEN DigestOfEmpty ELSE DigestOfA

\* os.path.join(a, b) on POSIX
path_join(a, b) ==
    IF StartsWith(b, <<"/">>) THEN b
    ELSE IF a = <<>> \/ a[Len(a)] = "/" THEN a \o b
    ELSE a \o <<"/">> \o b

RECURSIVE split(_)
\* line.split(): the maximal runs of non-whitespace characters, in order
split(line) ==
    IF line = <<>> THEN <<>>
    ELSE IF Head(line) \in Whitespace THEN split(Tail(line))
    ELSE LET n == IF \E i \in 1..Len(line) : line[i] \in Whitespace
                  THEN (CHOOSE i \in 1..Len(line) :
                            /\ line[i] \in Whitespace
                            /\ \A j \in 1..(i - 1) : line[j] \notin Whitespace) - 1
                  ELSE Len(line)
         IN <<SubSeq(line, 1, n)>> \o split(SubSeq(line, n + 1, Len(line)))

\* is_blank as it would be without the `if line.strip()` test of line 50
is_blank_never(line) == FALSE

\* line.strip() is empty
is_blank(line) == \A i \in 1..Len(line) : line[i] \in Whitespace

\* unpacks as it would be if extra tokens on a line were ignored
unpacks_lenient(tokens) == Len(tokens) >= 2

\* manifest_theme_file, expected_hash = line.split() succeeds
unpacks(tokens) == Len(tokens) = 2

\* names_theme as it would be if the line's file name were not compared
names_theme_any(tokens, tf) == TRUE

\* theme_file == os.path.join(self.themes_dir, manifest_theme_file)
names_theme(tokens, tf) == tf = path_join(themes_dir, tokens[1])

\* hash_matches as it would be if the digests were not compared
hash_matches_any(actual, exp) == TRUE

\* not (actual_hash != expected_hash)
hash_matches(actual, exp) == actual = exp

\* theme_file after `if not theme_file: theme_file = os.path.join(...)`
resolve_theme_file(arg) == IF Truthy(arg) THEN arg ELSE path_join(themes_dir, default_theme)

\* path_exists as it would be if the existence check were skipped
path_exists_always(f) == TRUE

\* os.path.exists(theme_file)
path_exists(f) == f.exists

Line(name, digest) == name \o <<" ">> \o digest \o <<"\n">>

\* an entry whose two fields a form feed separates
NordLine == Nord \o <<"\f">> \o DigestOfEmpty \o <<"\n">>

ManifestLines ==
    { Line(default_theme, DigestOfEmpty),
      Line(default_theme, DigestOfA),
      Line(default_theme, DigestOfEmptyUpper),
      NordLine,
      <<" ", "\f", "\n">>,
      default_theme \o <<"\n">>,
      default_theme \o <<" ">> \o DigestOfEmpty \o <<"\t", "x", "\n">> }

SeqsUpTo(S, n) == UNION {[1..k -> S] : k \in 0..n}

Unreadable == [readable |-> FALSE, lines |-> <<>>]

Manifests ==
    {Unreadable} \cup {[readable |-> TRUE, lines |-> ls] : ls \in SeqsUpTo(ManifestLines, MaxLines)}

Absent == [exists |-> FALSE, readable |-> FALSE, data |-> <<>>]

\* the states of the file at theme_file: absent, present but not openable, or its bytes
FileStates ==
    { Absent,
      [exists |-> TRUE, readable |-> FALSE, data |-> <<>>],
      [exists |-> TRUE, readable |-> TRUE, data |-> <<>>],
      [exists |-> TRUE, readable |-> TRUE, data |-> <<"a">>] }

ThemeArgs ==
    { None,
      path_join(themes_dir, default_theme),
      path_join(themes_dir, Nord),
      default_theme }

MsgNone == ""

MsgNotExist == "Theme file does not exist."

MsgMismatch == "Theme does not match expected hash."

MsgNotInManifest == "Theme file not found in MANIFEST."

MsgIOError == "Error reading MANIFEST file"

\* no validate_theme call is in progress
NoVerifier ==
    /\ theme_arg = None
    /\ theme_file = None
    /\ themeOnDisk = Absent
    /\ manifest = Unreadable
    /\ vpc = "idle"
    /\ lineNo = 0
    /\ expected = <<>>
    /\ result = "none"
    /\ printed = MsgNone
    /\ opened = FALSE

\* hue.py is not being executed
NoMain ==
    /\ importing = FALSE
    /\ args = [theme |-> None, validate |-> FALSE, load |-> FALSE]
    /\ mpc = "idle"
    /\ loaded = "none"
    /\ trace = <<>>
    /\ exit = "none"

\* _normalize_color is not being called on its own
NoNormalize ==
    /\ color_in = None
    /\ color_out = [err |-> "", rgb |-> <<>>]

\* no builder has been constructed
NoBuilder ==
    /\ styles = <<>>
    /\ fg_color = None
    /\ bg_color = None
    /\ theme = ""
    /\ negative = FALSE
    /\ last = [call |-> [op |-> "", color |-> None, rgb |-> None, flag |-> FALSE, name |-> ""],
               out |-> <<>>, err |-> ""]
    /\ prevOut = <<>>
    /\ calls = <<>>
    /\ styleCalls = 0

\* validate_theme(theme_file=arg) is entered, lines 39-42, with the files as they are
InitVerify ==
    /\ manifest \in Manifests
    /\ theme_arg \in ThemeArgs
    /\ theme_file = resolve_theme_file(theme_arg)
    /\ themeOnDisk \in FileStates
    /\ vpc = "exists"
    /\ lineNo = 0
    /\ expected = <<>>
    /\ result = "none"
    /\ printed = MsgNone
    /\ opened = FALSE
    /\ NoBuilder
    /\ NoMain
    /\ NoNormalize

Return(value, msg) ==
    /\ vpc' = "done"
    /\ result' = value
    /\ printed' = msg

Files == <<theme_arg, theme_file, themeOnDisk, manifest>>

\* lines 43-45
CheckExists ==
    /\ vpc = "exists"
    /\ IF path_exists(themeOnDisk)
       THEN vpc' = "open" /\ UNCHANGED <<result, printed>>
       ELSE Return("False", MsgNotExist)
    /\ UNCHANGED <<Files, lineNo, expected, opened, bvars, mvars, nvars>>

\* OpenManifest as it would be without the `except IOError` of lines 62-64
OpenManifest_uncaught ==
    /\ vpc = "open"
    /\ opened' = TRUE
    /\ IF manifest.readable
       THEN vpc' = "scan" /\ lineNo' = 1 /\ UNCHANGED <<result, printed>>
       ELSE Return("IOError", MsgNone) /\ UNCHANGED lineNo
    /\ UNCHANGED <<Files, expected, bvars, mvars, nvars>>

\* line 48, and lines 62-64 when open() raises
OpenManifest ==
    /\ vpc = "open"
    /\ opened' = TRUE
    /\ IF manifest.readable
       THEN vpc' = "scan" /\ lineNo' = 1 /\ UNCHANGED <<result, printed>>
       ELSE Return("False", MsgIOError) /\ UNCHANGED lineNo
    /\ UNCHANGED <<Files, expected, bvars, mvars, nvars>>

\* what lines 50-53 do with one line: skip it, raise, or go on to hash the theme
line_step(line, tf) ==
    IF is_blank(line) THEN "next"
    ELSE IF ~unpacks(split(line)) THEN "raise"
    ELSE IF names_theme(split(line), tf) THEN "hash"
    ELSE "next"

\* ReadLine as it would be if the last entry naming theme_file decided, not the first
ReadLine_last_entry ==
    /\ vpc = "scan"
    /\ lineNo <= Len(manifest.lines)
    /\ \E step \in {line_step(manifest.lines[lineNo], theme_file)} :
          \/ /\ \/ step = "next"
                \/ /\ step = "hash"
                   /\ \E j \in (lineNo + 1)..Len(manifest.lines) :
                         line_step(manifest.lines[j], theme_file) = "hash"
             /\ lineNo' = lineNo + 1
             /\ UNCHANGED <<vpc, result, printed, expected>>
          \/ /\ step = "raise"
             /\ Return("ValueError", MsgNone)
             /\ UNCHANGED <<lineNo, expected>>
          \/ /\ step = "hash"
             /\ \A j \in (lineNo + 1)..Len(manifest.lines) :
                   line_step(manifest.lines[j], theme_file) # "hash"
             /\ vpc' = "hash"
             /\ expected' = split(manifest.lines[lineNo])[2]
             /\ UNCHANGED <<lineNo, result, printed>>
    /\ UNCHANGED <<Files, opened, bvars, mvars, nvars>>

\* one iteration of the loop, lines 49-53
ReadLine ==
    /\ vpc = "scan"
    /\ lineNo <= Len(manifest.lines)
    /\ \E step \in {line_step(manifest.lines[lineNo], theme_file)} :
          \/ /\ step = "next"
             /\ lineNo' = lineNo + 1
             /\ UNCHANGED <<vpc, result, printed, expected>>
          \/ /\ step = "raise"
             /\ Return("ValueError", MsgNone)
             /\ UNCHANGED <<lineNo, expected>>
          \/ /\ step = "hash"
             /\ vpc' = "hash"
             /\ expected' = split(manifest.lines[lineNo])[2]
             /\ UNCHANGED <<lineNo, result, printed>>
    /\ UNCHANGED <<Files, opened, bvars, mvars, nvars>>

\* lines 54-59, and lines 62-64 when open(theme_file, 'rb') raises
HashTheme ==
    /\ vpc = "hash"
    /\ IF ~themeOnDisk.readable THEN Return("False", MsgIOError)
       ELSE IF hash_matches(sha256_hexdigest(themeOnDisk.data), expected)
       THEN Return("True", MsgNone)
       ELSE Return("False", MsgMismatch)
    /\ UNCHANGED <<Files, lineNo, expected, opened, bvars, mvars, nvars>>

\* lines 60-61: the loop ended without a line naming theme_file
NotInManifest ==
    /\ vpc = "scan"
    /\ lineNo > Len(manifest.lines)
    /\ Return("False", MsgNotInManifest)
    /\ UNCHANGED <<Files, lineNo, expected, opened, bvars, mvars, nvars>>

NextVerify ==
    \/ CheckExists
    \/ OpenManifest
    \/ ReadLine
    \/ HashTheme
    \/ NotInManifest

SpecVerify == InitVerify /\ [][NextVerify]_vars

----------------------------------------------------------------------------
(* Manifest verifier: properties *)

Returned == vpc = "done"

ManifestLine(i) == manifest.lines[i]

\* line i is an entry (two tokens) whose file name, joined with themes_dir, is theme_file
NamesTarget(i) ==
    /\ Len(split(ManifestLine(i))) = 2
    /\ path_join(themes_dir, split(ManifestLine(i))[1]) = theme_file

\* line i starts with a file name that, joined with themes_dir, is theme_file
MentionsTarget(i) ==
    /\ split(ManifestLine(i)) # <<>>
    /\ path_join(themes_dir, split(ManifestLine(i))[1]) = theme_file

\* line i is not blank and is not two whitespace-separated tokens
Malformed(i) == Len(split(ManifestLine(i))) \notin {0, 2}

LineNos == 1..Len(manifest.lines)

HasEntry == \E i \in LineNos : NamesTarget(i)

FirstEntry == CHOOSE i \in LineNos : NamesTarget(i) /\ \A j \in 1..(i - 1) : ~NamesTarget(j)

\* the theme file exists and its bytes can be read
FileHasBytes == themeOnDisk.exists /\ themeOnDisk.readable

DigestMatchesFirstEntry ==
    sha256_hexdigest(themeOnDisk.data) = split(ManifestLine(FirstEntry))[2]

\* C1 as stated: for an existing theme file and a readable manifest with an entry for
\* it, validate_theme returns True iff the file's SHA-256 hex digest is string-equal
\* to the digest the manifest records for it.
C1_TrueIffDigestEqual ==
    (Returned /\ FileHasBytes /\ manifest.readable /\ HasEntry)
        => (result = "True" <=> DigestMatchesFirstEntry)

\* C1 amended: for an existing theme file and a readable manifest in which no malformed
\* line precedes the first entry for it, validate_theme returns True if the file's
\* SHA-256 hex digest is string-equal to the digest of that first entry, and False
\* otherwise.
C1_TrueIffDigestEqualWhenReached ==
    (/\ Returned
     /\ FileHasBytes
     /\ manifest.readable
     /\ HasEntry
     /\ \A j \in 1..(FirstEntry - 1) : ~Malformed(j))
        => result = (IF DigestMatchesFirstEntry THEN "True" ELSE "False")

C1_Witness ==
    /\ Returned
    /\ result = "True"
    /\ themeOnDisk.data = <<"a">>
    /\ HasEntry
    /\ FirstEntry = 2

\* C2 as stated: validate_theme returns False whenever no manifest line names the
\* target path, whatever digests the lines for other names carry.
C2_FalseWhenNotNamed ==
    (Returned /\ manifest.readable /\ \A i \in LineNos : ~MentionsTarget(i))
        => result = "False"

\* C2 amended: when no manifest line names the target path, validate_theme never
\* returns True and never compares the file's hash with another name's digest: it
\* raises the parse failure if the file exists and some line is malformed, and
\* returns False otherwise.
C2_NeverTrueWhenNotNamed ==
    (Returned /\ manifest.readable /\ \A i \in LineNos : ~MentionsTarget(i))
        => /\ expected = <<>>
           /\ result = (IF themeOnDisk.exists /\ \E i \in LineNos : Malformed(i)
                        THEN "ValueError" ELSE "False")

C2_Witness ==
    /\ Returned
    /\ result = "False"
    /\ printed = MsgNotInManifest
    /\ FileHasBytes
    /\ \A i \in LineNos : ~MentionsTarget(i)
    /\ \E i \in LineNos :
          /\ Len(split(ManifestLine(i))) = 2
          /\ split(ManifestLine(i))[2] = sha256_hexdigest(themeOnDisk.data)

\* C3: when the theme file does not exist, validate_theme returns False, raising
\* nothing, and open(manifest_path) is never called.
C3_MissingFileSkipsManifest ==
    ~themeOnDisk.exists => (~opened /\ (Returned => result = "False"))

C3_Witness ==
    /\ Returned
    /\ ~themeOnDisk.exists
    /\ manifest.readable
    /\ HasEntry
    /\ result = "False"

\* C10 as stated: for an existing theme file and a readable manifest, a malformed
\* line anywhere in the manifest makes validate_theme end with the parse failure.
C10_MalformedAlwaysRaises ==
    (Returned /\ themeOnDisk.exists /\ manifest.readable /\ \E i \in LineNos : Malformed(i))
        => result = "ValueError"

\* C10 amended: for an existing theme file and a readable manifest, validate_theme
\* ends with the parse failure, returning neither True nor False, exactly when some
\* malformed line has no entry for the target before it; a malformed line after the
\* first entry for the target is never read.
C10_MalformedRaisesWhenReached ==
    (Returned /\ themeOnDisk.exists /\ manifest.readable)
        => (result = "ValueError"
              <=> \E i \in LineNos : Malformed(i) /\ \A j \in 1..(i - 1) : ~NamesTarget(j))

C10_Witness ==
    /\ Returned
    /\ result = "ValueError"
    /\ lineNo = 2
    /\ Malformed(2)

\* C11: when the theme file exists and the manifest cannot be opened, validate_theme
\* returns False: the I/O error is caught inside the call (and reported by a printed
\* message), it is not raised to the caller.
C11_UnreadableManifestIsFalse ==
    (Returned /\ themeOnDisk.exists /\ ~manifest.readable)
        => (result = "False" /\ printed = MsgIOError)

C11_Witness ==
    /\ Returned
    /\ themeOnDisk.exists
    /\ themeOnDisk.readable
    /\ ~manifest.readable
    /\ opened
    /\ result = "False"

----------------------------------------------------------------------------
(* Escape code builder: state and operations *)

DEFAULT_COLORS ==
    [dark  |-> [fg |-> <<"#", "e", "0", "e", "0", "e", "0">>,
                bg |-> <<"#", "1", "e", "1", "e", "1", "e">>],
     light |-> [fg |-> <<"#", "2", "e", "2", "e", "2", "e">>,
                bg |-> <<"#", "f", "0", "f", "0", "f", "0">>]]

FgPrefix == <<"3", "8", ";", "2", ";">>

BgPrefix == <<"4", "8", ";", "2", ";">>

\* f'{prefix}{r};{g};{b}'
FormatToken(prefix, rgb) ==
    prefix \o IntToStr(rgb[1]) \o <<";">> \o IntToStr(rgb[2]) \o <<";">> \o IntToStr(rgb[3])

\* color_args as it would be if the rgb tuple were preferred to the colour string
color_args_rgb_first(color, rgb) ==
    IF Truthy(rgb) THEN (IF Len(rgb) = 3 THEN Ok(rgb) ELSE Raise(UnpackError))
    ELSE IF Truthy(color) THEN normalize_color(color)
    ELSE Raise(ColorSpecError)

\* the (r, g, b) that set_fg_color / set_bg_color take from their arguments, or the error
color_args(color, rgb) ==
    IF Truthy(color) THEN normalize_color(color)
    ELSE IF Truthy(rgb) THEN (IF Len(rgb) = 3 THEN Ok(rgb) ELSE Raise(UnpackError))
    ELSE Raise(ColorSpecError)

\* self._fg_color = f'38;2;{r};{g};{b}', reached only when the arguments gave a colour
fg_assign(a, old) ==
    [err |-> a.err, token |-> IF a.err = "" THEN FormatToken(FgPrefix, a.rgb) ELSE old]

\* self._bg_color = f'48;2;{r};{g};{b}', reached only when the arguments gave a colour
bg_assign(a, old) ==
    [err |-> a.err, token |-> IF a.err = "" THEN FormatToken(BgPrefix, a.rgb) ELSE old]

\* set_fg_color: the outcome and the value of _fg_color after the call
fg_after(color, rgb, old) == fg_assign(color_args(color, rgb), old)

\* set_bg_color: the outcome and the value of _bg_color after the call
bg_after(color, rgb, old) == bg_assign(color_args(color, rgb), old)

\* default_pair as it would be if _set_default_colors forgot the background
default_pair_fg_only(f, b, oldFg, oldBg) ==
    IF f.err # "" THEN [err |-> f.err, fg |-> oldFg, bg |-> oldBg]
    ELSE [err |-> "", fg |-> f.token, bg |-> oldBg]

\* the two setter calls of _set_default_colors, the second made only if the first returns
default_pair(f, b, oldFg, oldBg) ==
    IF f.err # "" THEN [err |-> f.err, fg |-> oldFg, bg |-> oldBg]
    ELSE [err |-> b.err, fg |-> f.token, bg |-> b.token]

\* _set_default_colors for theme tag t: the outcome and both tokens after the call
default_colors_after(t, oldFg, oldBg) ==
    IF t \notin DOMAIN DEFAULT_COLORS
    THEN [err |-> ThemeError, fg |-> oldFg, bg |-> oldBg]
    ELSE default_pair(fg_after(DEFAULT_COLORS[t].fg, None, oldFg),
                      bg_after(DEFAULT_COLORS[t].bg, None, oldBg), oldFg, oldBg)

\* the arguments of one call on the builder
Call(op, color, rgb, flag, name) ==
    [op |-> op, color |-> color, rgb |-> rgb, flag |-> flag, name |-> name]

Constructed(t) == Call("__init__", None, None, FALSE, t)

TooMany == Call("...", None, None, FALSE, "")

\* bookkeeping of a call: what it was, what it returned or raised
Note(call, out, err) ==
    /\ last' = [call |-> call, out |-> out, err |-> err]
    /\ prevOut' = IF call.op = "build" /\ last.call.op = "build" THEN last.out ELSE <<>>
    /\ calls' = IF calls = <<TooMany>> \/ Len(calls) >= MaxHist
                THEN <<TooMany>> ELSE Append(calls, call)

\* the (color, rgb) argument pairs the colour setters are called with
ColorCalls ==
    { <<None, None>>,
      <<None, <<1, 2, 3>>>>,
      <<<<"#", "0", "1", "0", "2", "0", "3">>, None>>,
      <<<<"#", "0", "1", "0", "2", "0", "3">>, <<3, 2, 1>>>>,
      <<<<"#", "0", "1", "0", "2">>, <<1, 2, 3>>>> }

ThemeInputs == {"dark", "light", "solar"}

\* AnsiEscapeCodeBuilder(theme) for a theme the constructor accepts
Init ==
    \E t \in DOMAIN DEFAULT_COLORS :
        LET d == default_colors_after(t, None, None)
        IN /\ styles = <<>>
           /\ fg_color = d.fg
           /\ bg_color = d.bg
           /\ theme = t
           /\ negative = FALSE
           /\ last = [call |-> Constructed(t), out |-> <<>>, err |-> ""]
           /\ prevOut = <<>>
           /\ calls = <<>>
           /\ styleCalls = 0
           /\ NoVerifier
           /\ NoMain
           /\ NoNormalize

style_token(on, off, enabled) == IF enabled THEN on ELSE off

\* set_style as it would be if a setter replaced its earlier token instead of appending
set_style_dedup(op, on, off, enabled) ==
    /\ Len(styles) < MaxStyles
    /\ styles' = SelectSeq(styles, LAMBDA x : x \notin {on, off})
                    \o <<style_token(on, off, enabled)>>
    /\ styleCalls' = styleCalls + 1
    /\ Note(Call(op, None, None, enabled, ""), <<>>, "")
    /\ UNCHANGED <<fg_color, bg_color, theme, negative, vvars, mvars, nvars>>

set_style(op, on, off, enabled) ==
    /\ Len(styles) < MaxStyles
    /\ styles' = Append(styles, style_token(on, off, enabled))
    /\ styleCalls' = styleCalls + 1
    /\ Note(Call(op, None, None, enabled, ""), <<>>, "")
    /\ UNCHANGED <<fg_color, bg_color, theme, negative, vvars, mvars, nvars>>

set_bold == \E enabled \in BOOLEAN : set_style("set_bold", <<"1">>, <<"2", "2">>, enabled)

set_italic == \E enabled \in BOOLEAN : set_style("set_italic", <<"3">>, <<"2", "3">>, enabled)

set_underline ==
    \E enabled \in BOOLEAN : set_style("set_underline", <<"4">>, <<"2", "4">>, enabled)

set_fg_color ==
    \E a \in ColorCalls :
        \E r \in {fg_after(a[1], a[2], fg_color)} :
           /\ fg_color' = r.token
           /\ Note(Call("set_fg_color", a[1], a[2], FALSE, ""), <<>>, r.err)
           /\ UNCHANGED <<styles, bg_color, theme, negative, styleCalls, vvars, mvars, nvars>>

set_bg_color ==
    \E a \in ColorCalls :
        \E r \in {bg_after(a[1], a[2], bg_color)} :
           /\ bg_color' = r.token
           /\ Note(Call("set_bg_color", a[1], a[2], FALSE, ""), <<>>, r.err)
           /\ UNCHANGED <<styles, fg_color, theme, negative, styleCalls, vvars, mvars, nvars>>

set_theme ==
    \E t \in ThemeInputs :
        \E d \in {default_colors_after(t, fg_color, bg_color)} :
           /\ theme' = t
           /\ fg_color' = d.fg
           /\ bg_color' = d.bg
           /\ Note(Call("set_theme", None, None, FALSE, t), <<>>, d.err)
           /\ UNCHANGED <<styles, negative, styleCalls, vvars, mvars, nvars>>

set_negative ==
    \E enabled \in BOOLEAN :
        /\ negative' = enabled
        /\ Note(Call("set_negative", None, None, enabled, ""), <<>>, "")
        /\ UNCHANGED <<styles, fg_color, bg_color, theme, styleCalls, vvars, mvars, nvars>>

\* build_swap as it would be if build() swapped whatever the negative flag
build_swap_always(neg, fg, bg) == <<bg, fg>>

\* the (fg, bg) pair stored by build() before it renders
build_swap(neg, fg, bg) == IF neg THEN <<bg, fg>> ELSE <<fg, bg>>

\* build_codes as it would be if only the foreground token were rendered
build_codes_fg_only(fg, bg, st) == (IF Truthy(fg) THEN <<fg>> ELSE <<>>) \o st

\* build_codes as it would be if the background token were listed first
build_codes_bg_first(fg, bg, st) ==
    (IF Truthy(bg) THEN <<bg>> ELSE <<>>) \o (IF Truthy(fg) THEN <<fg>> ELSE <<>>) \o st

\* the list `codes` of build()
build_codes(fg, bg, st) ==
    (IF Truthy(fg) THEN <<fg>> ELSE <<>>) \o (IF Truthy(bg) THEN <<bg>> ELSE <<>>) \o st

\* f'\033[{";".join(codes)}m'
build_string(codes) == <<ESC, "[">> \o Join(codes, <<";">>) \o <<"m">>

build ==
    \E p \in {build_swap(negative, fg_color, bg_color)} :
       /\ fg_color' = p[1]
       /\ bg_color' = p[2]
       /\ Note(Call("build", None, None, FALSE, ""), build_string(build_codes(p[1], p[2], styles)), "")
       /\ UNCHANGED <<styles, theme, negative, styleCalls, vvars, mvars, nvars>>

Next ==
    \/ set_bold
    \/ set_italic
    \/ set_underline
    \/ set_fg_color
    \/ set_bg_color
    \/ set_theme
    \/ set_negative
    \/ build

Spec == Init /\ [][Next]_vars

----------------------------------------------------------------------------
(* Escape code builder: properties *)

StyleOps == {"set_bold", "set_italic", "set_underline"}

ColorOps == {"set_fg_color", "set_bg_color"}

Fg224 == <<"3", "8", ";", "2", ";", "2", "2", "4", ";", "2", "2", "4", ";", "2", "2", "4">>

Bg30 == <<"4", "8", ";", "2", ";", "3", "0", ";", "3", "0", ";", "3", "0">>

Fg46 == <<"3", "8", ";", "2", ";", "4", "6", ";", "4", "6", ";", "4", "6">>

Bg240 == <<"4", "8", ";", "2", ";", "2", "4", "0", ";", "2", "4", "0", ";", "2", "4", "0">>

Fg123 == <<"3", "8", ";", "2", ";", "1", ";", "2", ";", "3">>

Bg123 == <<"4", "8", ";", "2", ";", "1", ";", "2", ";", "3">>

Hex010203 == <<"#", "0", "1", "0", "2", "0", "3">>

Wrap(body) == <<ESC, "[">> \o body \o <<"m">>

BuildCall == Call("build", None, None, FALSE, "")

\* the latest two calls were both build(), made while the negative flag was set
TwoNegativeBuilds == last.call.op = "build" /\ prevOut # <<>> /\ negative

\* the two outputs list the stored tokens in opposite order
OppositeOrder ==
    /\ prevOut = Wrap(Join(<<bg_color, fg_color>> \o styles, <<";">>))
    /\ last.out = Wrap(Join(<<fg_color, bg_color>> \o styles, <<";">>))

\* C4 as stated: with the negative flag set, two consecutive build() calls return
\* different strings, with the fg and bg tokens in opposite order.
C4_NegativeBuildsDiffer == TwoNegativeBuilds => (last.out # prevOut /\ OppositeOrder)

\* a fresh builder on which set_fg_color(rgb=(1,2,3)) and then build() were called
OnlyFgThenBuild == calls = <<Call("set_fg_color", None, <<1, 2, 3>>, FALSE, ""), BuildCall>>

\* C5 as stated: on a fresh builder, set_fg_color(rgb=(1,2,3)) then build() returns
\* exactly ESC [38;2;1;2;3m, the foreground token alone.
C5_FgAlone == OnlyFgThenBuild => last.out = Wrap(Fg123)

\* C5 amended: on a fresh builder, set_fg_color(rgb=(1,2,3)) then build() returns
\* ESC [38;2;1;2;3;<bg>m where <bg> is the background token of the theme the builder
\* was constructed with (48;2;30;30;30 for dark, 48;2;240;240;240 for light).
C5_FgThenDefaultBg ==
    OnlyFgThenBuild =>
        last.out = Wrap(Fg123 \o <<";">> \o (IF theme = "dark" THEN Bg30 ELSE Bg240))

C5_Witness == OnlyFgThenBuild /\ theme = "dark" /\ last.out = Wrap(Fg123 \o <<";">> \o Bg30)

SetThemeReturned ==
    last.call.op = "set_theme" /\ last.call.name \in {"dark", "light"} /\ last.err = ""

\* C6: after set_theme(t), t dark or light, the stored tokens are t's default fg as a
\* 38;2 token and t's default bg as a 48;2 token, whatever the state before; and
\* set_theme('dark') then build() with negative off and no styles returns
\* ESC [38;2;224;224;224;48;2;30;30;30m.
C6_SetThemeResets ==
    /\ [](SetThemeReturned =>
            /\ theme = last.call.name
            /\ fg_color = (IF theme = "dark" THEN Fg224 ELSE Fg46)
            /\ bg_color = (IF theme = "dark" THEN Bg30 ELSE Bg240))
    /\ [][(/\ SetThemeReturned
           /\ last.call.name = "dark"
           /\ ~negative
           /\ styles = <<>>
           /\ last'.call.op = "build")
          => last'.out = Wrap(Fg224 \o <<";">> \o Bg30)]_vars

C6_Witness ==
    /\ calls = <<Call("set_theme", None, None, FALSE, "dark"), BuildCall>>
    /\ last.out = Wrap(Fg224 \o <<";">> \o Bg30)

\* C7: the stored fg and bg tokens change only in set_fg_color, set_bg_color and
\* set_theme; every other call, build() included, leaves both unchanged.
C7_TokensChangeOnlyInSetters ==
    [][(fg_color' # fg_color \/ bg_color' # bg_color)
       => last'.call.op \in ColorOps \cup {"set_theme"}]_vars

StyleTokenOf(call) ==
    IF call.op = "set_bold" THEN (IF call.flag THEN <<"1">> ELSE <<"2", "2">>)
    ELSE IF call.op = "set_italic" THEN (IF call.flag THEN <<"3">> ELSE <<"2", "3">>)
    ELSE (IF call.flag THEN <<"4">> ELSE <<"2", "4">>)

\* C8: every style-setter call appends exactly one token (1/3/4 enabled, 22/23/24
\* disabled) and leaves the earlier tokens as they were; after n such calls the style
\* sequence has length n; no other call changes it.
C8_StylesAppendOnly ==
    /\ [](Len(styles) = styleCalls)
    /\ [][IF styleCalls' # styleCalls
          THEN /\ last'.call.op \in StyleOps
               /\ styleCalls' = styleCalls + 1
               /\ styles' = Append(styles, StyleTokenOf(last'.call))
          ELSE styles' = styles]_vars

C8_Witness == styles = <<<<"1">>, <<"1">>>> /\ styleCalls = 2 /\ last.call.op = "set_bold"

ColorCall == last.call.op \in ColorOps

Supplied(x) == x # None

StoredToken == IF last.call.op = "set_fg_color" THEN fg_color ELSE bg_color

\* a colour-setter call that fails leaves both stored tokens as they were
FailedColorCallKeepsTokens ==
    [][(last'.call.op \in ColorOps /\ last'.err # "")
       => (fg_color' = fg_color /\ bg_color' = bg_color)]_vars

\* C9 as stated: a colour setter accepts a call only when exactly one of color and rgb
\* is supplied; with neither it fails with the colour-specification error; a failing
\* call leaves the stored token unchanged.
C9_ExactlyOneArgument ==
    /\ []((ColorCall /\ last.err = "")
            => (Supplied(last.call.color) # Supplied(last.call.rgb)))
    /\ []((ColorCall /\ ~Supplied(last.call.color) /\ ~Supplied(last.call.rgb))
            => last.err = ColorSpecError)
    /\ FailedColorCallKeepsTokens

\* C9 amended: a colour setter fails with the colour-specification error when neither
\* color nor rgb is supplied; when both are supplied it takes the colour from color
\* and ignores rgb (so it stores color's token, or fails if color is invalid); a
\* failing call leaves the stored token unchanged.
C9_ColorWinsOverRgb ==
    /\ []((ColorCall /\ ~Supplied(last.call.color) /\ ~Supplied(last.call.rgb))
            => last.err = ColorSpecError)
    /\ []((ColorCall /\ Supplied(last.call.color) /\ Supplied(last.call.rgb))
            => IF last.call.color = Hex010203
               THEN /\ last.err = ""
                    /\ StoredToken = (IF last.call.op = "set_fg_color" THEN Fg123 ELSE Bg123)
               ELSE last.err = HexFormatError)
    /\ FailedColorCallKeepsTokens

C9_Witness ==
    /\ last.call.op = "set_fg_color"
    /\ last.call.color = Hex010203
    /\ last.call.rgb = <<3, 2, 1>>
    /\ last.err = ""
    /\ fg_color = Fg123


\* the style tokens of the style-setter calls of the recorded history, in call order
StyleTokensCalled ==
    LET s == SelectSeq(calls, LAMBDA c : c.op \in StyleOps)
    IN  [i \in 1..Len(s) |-> StyleTokenOf(s[i])]

\* C12: build() returns ESC "[" + J + "m" where J is the ';'-join of the stored fg
\* token (if present), the stored bg token (if present) and then every style token,
\* in the order the style setters were called; nothing is dropped, duplicated or
\* reordered. (The stored tokens are those held once the call has returned.)
C12_BuildOutput ==
    last.call.op = "build" =>
        /\ last.out = <<ESC, "[">>
                        \o Join(SelectSeq(<<fg_color, bg_color>>, Truthy) \o styles, <<";">>)
                        \o <<"m">>
        /\ calls # <<TooMany>> => styles = StyleTokensCalled

C12_Witness ==
    /\ last.call.op = "build"
    /\ ~negative
    /\ calls = <<Call("set_italic", None, None, TRUE, ""), BuildCall>>
    /\ last.out = Wrap(Fg224 \o <<";">> \o Bg30 \o <<";", "3">>)


\* C13: in every reachable state the theme tag is 'dark' or 'light'; a set_theme call
\* with any other name fails with the unsupported-theme error and the theme tag still
\* is 'dark' or 'light' afterwards.
C13_ThemeIsDarkOrLight ==
    /\ theme \in {"dark", "light"}
    /\ (last.call.op = "set_theme" /\ last.call.name \notin {"dark", "light"})
          => last.err = ThemeError

----------------------------------------------------------------------------
(* hue.py: the module-level block, run as __main__ or at import *)

\* the command lines handle_arguments() can return: -t, -v, -l
MainArgs == [theme : ThemeArgs, validate : BOOLEAN, load : BOOLEAN]

NoArgs == [theme |-> None, validate |-> FALSE, load |-> FALSE]

MainManifests ==
    {Unreadable}
        \cup {[readable |-> TRUE, lines |-> ls] : ls \in SeqsUpTo(ManifestLines, MaxMainLines)}

\* what Theme.from_file can do with the file: return a Theme, return a falsy value
\* (the callers test `if theme`), or raise a load error
from_file(file) ==
    IF file.exists /\ file.readable THEN {"Theme", "None", "LoadError"}
    ELSE {"None", "LoadError"}

\* line 138
MsgValidateFailed == "ValueError: Failed to validate theme."

\* line 120
MsgValidateThemeFailed == "ValueError: Failed to validate theme: <args.theme>"

MsgLoadFailed == "ValueError: Failed to load default theme."

\* hue.py starts: ThemeManager() and setup_logging(), lines 107-113 or 145-147
InitMain ==
    /\ importing \in BOOLEAN
    /\ args \in (IF importing THEN {NoArgs} ELSE MainArgs)
    /\ mpc = "start"
    /\ loaded = "none"
    /\ trace = <<>>
    /\ exit = "none"
    /\ theme_arg = None
    /\ theme_file = None
    /\ themeOnDisk \in FileStates
    /\ manifest \in MainManifests
    /\ vpc = "idle"
    /\ lineNo = 0
    /\ expected = <<>>
    /\ result = "none"
    /\ printed = MsgNone
    /\ opened = FALSE
    /\ NoBuilder
    /\ NoNormalize

Verifier == <<theme_arg, theme_file, themeOnDisk, manifest, vpc, lineNo, expected, result,
              printed, opened>>

\* the branches of lines 107, 115, 117, 124, 129 and 131
Dispatch ==
    /\ mpc = "start"
    /\ IF importing THEN mpc' = "load" /\ exit' = exit
       ELSE IF Truthy(args.theme)
            THEN IF args.validate THEN mpc' = "validate" /\ exit' = exit
                 ELSE IF args.load THEN mpc' = "load" /\ exit' = exit
                 ELSE mpc' = "done" /\ exit' = "ok"
            ELSE mpc' = "load" /\ exit' = exit
    /\ UNCHANGED <<importing, args, loaded, trace, Verifier, bvars, nvars>>

\* get_theme_instance called at line 125, 133 or 148, and what follows the call
get_theme_instance ==
    /\ mpc = "load"
    /\ trace' = Append(trace, [call |-> "from_file", verdict |-> result])
    /\ \E r \in from_file(themeOnDisk) :
         /\ loaded' = r
         /\ IF r = "LoadError" THEN mpc' = "done" /\ exit' = "LoadError"
            ELSE IF importing
                 THEN mpc' = "done" /\ exit' = (IF r = "Theme" THEN "ok" ELSE MsgLoadFailed)
            ELSE IF Truthy(args.theme) THEN mpc' = "done" /\ exit' = "ok"
            ELSE mpc' = "validate" /\ exit' = exit
    /\ UNCHANGED <<importing, args, Verifier, bvars, nvars>>

\* validate_theme called at line 118 (with args.theme) or 136 (with no argument)
CallValidate ==
    /\ mpc = "validate"
    /\ mpc' = "validating"
    /\ trace' = Append(trace, [call |-> "validate_theme", verdict |-> "none"])
    /\ theme_arg' = args.theme
    /\ theme_file' = resolve_theme_file(args.theme)
    /\ vpc' = "exists"
    /\ UNCHANGED <<importing, args, loaded, exit, themeOnDisk, manifest, lineNo, expected,
                   result, printed, opened, bvars, nvars>>

\* lines 118-123 and 136-144, once validate_theme has returned or raised
AfterValidate ==
    /\ mpc = "validating"
    /\ vpc = "done"
    /\ mpc' = "done"
    /\ exit' = IF result = "True" THEN "ok"
               ELSE IF result = "False"
                    THEN (IF Truthy(args.theme) THEN MsgValidateThemeFailed
                          ELSE MsgValidateFailed)
               ELSE result
    /\ UNCHANGED <<importing, args, loaded, trace, Verifier, bvars, nvars>>

NextMain ==
    \/ Dispatch
    \/ get_theme_instance
    \/ CallValidate
    \/ CheckExists
    \/ OpenManifest
    \/ ReadLine
    \/ HashTheme
    \/ NotInManifest
    \/ AfterValidate

SpecMain == InitMain /\ [][NextMain]_vars

----------------------------------------------------------------------------
(* hue.py: properties of the module-level block *)

Called(name) == {i \in DOMAIN trace : trace[i].call = name}

\* C14: in every run in which a theme file is both verified and loaded, validate_theme
\* is called before the loader is invoked, and the loader is invoked only when that
\* verification has returned True.
C14_VerifiedBeforeLoaded ==
    (Called("validate_theme") # {} /\ Called("from_file") # {})
        => \A i \in Called("from_file") :
              /\ \E j \in Called("validate_theme") : j < i
              /\ trace[i].verdict = "True"

----------------------------------------------------------------------------
(* _normalize_color called on its own *)

\* the characters colour strings are made of: hex digits, a letter that is no hex
\* digit and a sign
BodyChars == {"0", "f", "g", "-"}

Hashes(n) == [i \in 1..n |-> "#"]

ExampleColors ==
    { <<"#", "0", "7", "2", "4", "4", "8">>,
      <<"#", "F", "F", "F">>,
      <<"#", "a", "B", "c">>,
      <<"#", "+", "1", "+", "2", "+", "3">>,
      <<"#", " ", "1", " ", "2", " ", "3">>,
      <<"#", "f", " ", "f", " ", "f", " ">>,
      <<"#", " ", " ", "f">>,
      <<"#", "\t", "f", "\t", "f", "\t", "f">>,
      <<"#", "FS", "f", "0", "0", "0", "0">>,
      <<"#", "f", "\f", "0", "0", "0", "0">>,
      <<"#", "U+0661", "U+0662", "U+0663">>,
      <<"#", "U+FF11", "0", "a", "U+0666", "-", "U+1D7D7">> }

\* the texts of hues and of percentages in the HSL strings tried
HueTexts ==
    { <<"0">>,
      <<"6", "0">>,
      <<"3", "0", "0">>,
      <<"2", "1", "0">>,
      <<"0", ".", "5">>,
      <<"-", "1", "2", "0">>,
      <<"1", "e", "2">>,
      <<" ", "0">> }

PercentTexts ==
    { <<"1", "0", "0">>,
      <<"5", "0">>,
      <<"4", "0">>,
      <<" ", "6", "0">> }

Hsl(h, s, l) ==
    <<"h", "s", "l", "(">> \o h \o <<",">> \o s \o <<"%", ",">> \o l \o <<"%", ")">>

HslColors ==
    {Hsl(h, s, l) : h \in HueTexts, s \in PercentTexts, l \in PercentTexts}
        \cup { <<"h", "s", "l", "(", "0", ",", "0", "%", ",", "5", "0", "%", ")">>,
          <<"h", "s", "l", "(", "0", ",", "i", "n", "f", "%", ",", "5", "0", "%", ")">>,
          <<"h", "s", "l", "(", "0", ",", "1", "0", "0", "%", ",", "n", "a", "n", "%", ")">>,
          <<"h", "s", "l", "(", "0", ",", "1", "0", "0", "%", ",", "5", "0", "%", ")", "x">>,
          <<"h", "s", "l", "(", "1", ",", "2", ")">>,
          <<"h", "s", "l", "(", "1", ",", "2", ",", "3", ",", "4", ")">>,
          <<"h", "s", "l", "(", "a", ",", "2", ",", "3", ")">>,
          <<"h", "s", "l", "(", "1", "_", "0", ",", "5", ".", "%", ",", ".", "5", "%", ")">>,
          <<"h", "s", "l", "(", "U+FF16", "U+FF10", ",", "U+0661", "0", "0", "%", ",", "5", "U+0966", "%", ")">>,
          <<"r", "e", "d">> }

ColorInputs ==
    {Hashes(n) \o b : n \in 0..MaxHashes, b \in SeqsUpTo(BodyChars, MaxBody)}
        \cup ExampleColors \cup HslColors

NotCalled == [err |-> "", rgb |-> <<>>]

InitNormalize ==
    /\ color_in \in ColorInputs
    /\ color_out = NotCalled
    /\ NoBuilder
    /\ NoVerifier
    /\ NoMain

\* self._normalize_color(color_in) returns or raises
call_normalize_color ==
    /\ color_out = NotCalled
    /\ color_out' = normalize_color(color_in)
    /\ UNCHANGED <<color_in, bvars, vvars, mvars>>

NextNormalize == call_normalize_color

SpecNormalize == InitNormalize /\ [][NextNormalize]_vars

----------------------------------------------------------------------------
(* _normalize_color: properties *)

IsHex(s) == \A i \in DOMAIN s : HexVal(s[i]) >= 0

Doubled(s) == <<s[1], s[1], s[2], s[2], s[3], s[3]>>

\* what follows the first character of color_in, and what follows all its leading '#'s
AfterOneHash == Tail(color_in)

AfterAllHashes == LStrip(color_in, "#")

NormalizeReturned == color_out # NotCalled

\* C15: the 3-digit form '#xyz' normalizes to the triple of '#xxyyzz', each digit
\* duplicated to a byte; a string that, after one leading '#', has a length other than
\* 3 or 6 is rejected with the invalid-HEX-format error.
C15_HexAfterOneHash ==
    (NormalizeReturned /\ StartsWith(color_in, <<"#">>)) =>
        /\ (Len(AfterOneHash) = 3 /\ IsHex(AfterOneHash))
              => /\ color_out = Ok([i \in 1..3 |-> 17 * HexVal(AfterOneHash[i])])
                 /\ color_out = normalize_color(<<"#">> \o Doubled(AfterOneHash))
        /\ Len(AfterOneHash) \notin {3, 6} => color_out = Raise(HexFormatError)

\* C15 amended: every leading '#' is removed, not just one; what is left is
\* normalized as the claim says when it has 3 hex digits, gives its three bytes when
\* it has 6, and is rejected with the invalid-HEX-format error when its length is
\* neither 3 nor 6.
C15_HexAfterAllHashes ==
    (NormalizeReturned /\ StartsWith(color_in, <<"#">>)) =>
        /\ (Len(AfterAllHashes) = 3 /\ IsHex(AfterAllHashes))
              => /\ color_out = Ok([i \in 1..3 |-> 17 * HexVal(AfterAllHashes[i])])
                 /\ color_out = normalize_color(<<"#">> \o Doubled(AfterAllHashes))
        /\ (Len(AfterAllHashes) = 6 /\ IsHex(AfterAllHashes))
              => color_out = Ok([i \in 1..3 |-> 16 * HexVal(AfterAllHashes[2 * i - 1])
                                                  + HexVal(AfterAllHashes[2 * i])])
        /\ Len(AfterAllHashes) \notin {3, 6} => color_out = Raise(HexFormatError)

C15_Witness ==
    /\ color_in = <<"#", "#", "f", "f", "f">>
    /\ color_out = Ok(<<255, 255, 255>>)

----------------------------------------------------------------------------
(* validate_theme as a function of the two files *)

\* lines 51-59 for a line whose iteration takes `step`, and the lines after it
RECURSIVE scan_outcome(_, _, _, _)
scan_from(step, lines, i, tf, file) ==
    IF step = "next" THEN scan_outcome(lines, i + 1, tf, file)
    ELSE IF step = "raise" THEN "ValueError"
    ELSE IF ~file.readable THEN "False"
    ELSE IF hash_matches(sha256_hexdigest(file.data), split(lines[i])[2]) THEN "True"
    ELSE "False"

\* the loop of lines 49-61 from line i on
scan_outcome(lines, i, tf, file) ==
    IF i > Len(lines) THEN "False"
    ELSE scan_from(line_step(lines[i], tf), lines, i, tf, file)

\* what validate_theme returns or raises for the theme file, the manifest and the
\* path tf of the theme file
validate_outcome(file, mf, tf) ==
    IF ~file.exists THEN "False"
    ELSE IF ~mf.readable THEN "False"
    ELSE scan_outcome(mf.lines, 1, tf, file)

\* the manifest cut after line i
CutAfter(i) == [readable |-> TRUE, lines |-> SubSeq(manifest.lines, 1, i)]

\* the number of the first line naming theme_file, if there is one
FirstEntries == {i \in LineNos : NamesTarget(i) /\ \A j \in 1..(i - 1) : ~NamesTarget(j)}

\* C16: the lines are scanned in file order and the scan stops at the first line
\* naming the target: only that line's digest is compared, no later line is read, and
\* the outcome is the one of the manifest cut after that line, so later duplicates and
\* later malformed lines have no effect.
C16_FirstEntryDecides ==
    /\ [][lineNo' \in {lineNo, lineNo + 1}]_vars
    /\ [](manifest.readable =>
            \A fe \in FirstEntries :
                /\ lineNo <= fe
                /\ expected \in {<<>>, split(ManifestLine(fe))[2]}
                /\ vpc = "hash" => lineNo = fe
                /\ result = "True" =>
                      /\ lineNo = fe
                      /\ sha256_hexdigest(themeOnDisk.data) = split(ManifestLine(fe))[2]
                /\ Returned => result = validate_outcome(themeOnDisk, CutAfter(fe), theme_file))

C16_Witness ==
    /\ Returned
    /\ manifest.lines = << Line(default_theme, DigestOfEmpty),
                           Line(default_theme, DigestOfA),
                           default_theme \o <<"\n">> >>
    /\ themeOnDisk.data = <<>>
    /\ lineNo = 1
    /\ result = "True"

\* the orders n lines can be put in, for every n a manifest has
LineOrders ==
    [n \in 0..MaxLines |-> {p \in [1..n -> 1..n] : \A i, j \in 1..n : p[i] = p[j] => i = j}]

Permuted(p) == [readable |-> manifest.readable, lines |-> [i \in LineNos |-> ManifestLine(p[i])]]

\* every order of the manifest's lines gives the outcome the call had
SameInEveryOrder ==
    \A p \in LineOrders[Len(manifest.lines)] :
        \A mf \in {Permuted(p)} : validate_outcome(themeOnDisk, mf, theme_file) = result

\* the verdict of line i when it is the first entry for theme_file: the file's bytes
\* can be read and their digest is the one the line records
EntryMatches(i) ==
    /\ themeOnDisk.readable
    /\ sha256_hexdigest(themeOnDisk.data) = split(ManifestLine(i))[2]

\* the entries for theme_file all give the same verdict
EntriesGiveOneVerdict ==
    \A i, j \in LineNos :
        (NamesTarget(i) /\ NamesTarget(j)) => (EntryMatches(i) <=> EntryMatches(j))

\* the manifest is never scanned, or it has a malformed line and no entry for
\* theme_file, or it has no malformed line and its entries for theme_file all give
\* the same verdict
OrderCannotMatter ==
    \/ ~themeOnDisk.exists
    \/ ~manifest.readable
    \/ IF \E i \in LineNos : Malformed(i) THEN ~HasEntry ELSE EntriesGiveOneVerdict

\* C17: the order of the manifest's lines is irrelevant: permuting them never changes
\* the outcome of validate_theme (True, False or parse failure).
C17_OrderIrrelevant == Returned => SameInEveryOrder

\* C17 amended: permuting the lines never changes the outcome exactly when the
\* manifest is never scanned (the theme file is missing or the manifest cannot be
\* read), or it has a malformed line and no entry for the target, or it has no
\* malformed line and its entries for the target all give the same verdict.
C17_OrderIrrelevantExactlyWhen == Returned => (SameInEveryOrder <=> OrderCannotMatter)

C17_Witness ==
    /\ Returned
    /\ result = "True"
    /\ manifest.lines = << NordLine, <<" ", "\f", "\n">>,
                           Line(default_theme, DigestOfEmpty) >>
    /\ SameInEveryOrder
    /\ OrderCannotMatter

----------------------------------------------------------------------------
(* Escape code builder: token kinds and build() as a read *)

IsFgToken(tok) == StartsWith(tok, FgPrefix)

IsBgToken(tok) == StartsWith(tok, BgPrefix)

\* C18: in every reachable state the foreground slot holds a foreground token
\* (prefix 38;2;) and the background slot a background token (prefix 48;2;), so every
\* build() output lists exactly one foreground token and exactly one background token.
C18_SlotsKeepTheirKind ==
    /\ IsFgToken(fg_color)
    /\ IsBgToken(bg_color)
    /\ last.call.op = "build" =>
          /\ last.out = Wrap(Join(<<fg_color, bg_color>> \o styles, <<";">>))
          /\ Len(SelectSeq(<<fg_color, bg_color>>, IsFgToken)) = 1
          /\ Len(SelectSeq(<<fg_color, bg_color>>, IsBgToken)) = 1

\* C19: while the negative flag is False, build() is a pure read: it leaves the
\* styles, the fg token, the bg token, the negative flag and the theme unchanged, and
\* consecutive build() calls return the identical string.
C19_BuildIsPureWhenNotNegative ==
    /\ [][(last'.call.op = "build" /\ ~negative)
            => /\ styles' = styles
               /\ fg_color' = fg_color
               /\ bg_color' = bg_color
               /\ negative' = negative
               /\ theme' = theme]_vars
    /\ []((last.call.op = "build" /\ prevOut # <<>> /\ ~negative) => last.out = prevOut)

C19_Witness ==
    /\ calls = <<BuildCall, BuildCall>>
    /\ ~negative
    /\ prevOut = Wrap(Fg224 \o <<";">> \o Bg30)
    /\ last.out = prevOut

====
